---- MODULE Spec2Model ----
(***************************************************************************)
(* The multi-shot consistency pipeline of cgifurniture: the React state of *)
(* App (src/App.tsx), the handlers that change it, and the render runs of  *)
(* handleRender driving GeminiService (src/services/geminiService.ts).     *)
(*                                                                         *)
(* An async handler is a sequence of steps, one per stretch of code        *)
(* between two suspension points (await).  run.pc names the point where    *)
(* the current handleRender activation is suspended:                       *)
(*   "idle"     no activation                                              *)
(*   "loop"     at the head of a for loop (not a suspension point: no      *)
(*              other handler runs while the pc is here)                   *)
(*   "acquire"  awaiting processImage inside renderProduct / stageRoom     *)
(*   "call"     awaiting fn() inside callWithRetry                         *)
(*   "backoff"  awaiting the setTimeout inside callWithRetry               *)
(*   "catch"    an exception has reached the catch block of handleRender   *)
(*              (not a suspension point)                                   *)
(***************************************************************************)
EXTENDS Integers, Sequences, FiniteSets, TLC

VARIABLES
  apiKey,        \* process.env.API_KEY as the build defined it: TRUE when set
  collection,    \* useState<Collection | null>
  isRendering,   \* useState(false)
  renderStatus,  \* useState<string | null>: the progress text
  errorMessage,  \* useState<string | null>
  run,           \* the activation frame of handleRender (closure and locals)
  net,           \* remote generateContent invocations in flight
  reqLog,        \* history: the requests the current run has submitted
  images_out,    \* number of images the remote model has produced so far
  scheduled,     \* number of work units the runs so far have scheduled
  editingState,  \* useState<EditingState | null>
  edit,          \* the activation frame of handleApplyEdit
  alerted,       \* the text of the alert the last handleApplyEdit raised
  editCount      \* number of activations of handleApplyEdit so far

\* the state of the edit dialog and of handleApplyEdit
editVars == <<editingState, edit, alerted, editCount>>

vars == <<apiKey, collection, isRendering, renderStatus, errorMessage,
          run, net, reqLog, images_out, scheduled,
          editingState, edit, alerted, editCount>>

----------------------------------------------------------------------------
(* Bounds of the model *)

MaxImages == 2
NumAngles == 2
NumStagingAngles == 3
MaxUnits == 3
MaxEventsPerRun == 1
MaxEdits == 2

----------------------------------------------------------------------------
(* Values *)

Null == [null |-> TRUE]   \* collection === null
NoUrl == <<>>             \* an absent (undefined) image reference
NoText == <<>>            \* a null message or progress text

\* URL.createObjectURL / the remote model's data URL: opaque, distinct values
BlobUrl(k) == <<"blob", k>>
DataUrl(n) == <<"data", n>>

\* CameraAngle, in an order of which the model uses a prefix: the first
\* NumAngles members where the angle buttons are clicked one by one, the first
\* NumStagingAngles members where a staging run starts from any angle list
AngleOrder == <<"WIDE", "TOP_DOWN", "CLOSEUP", "SIDE_PERSPECTIVE", "MEDIUM", "DETAIL_MACRO">>
CameraAngle == {AngleOrder[k] : k \in 1..NumAngles}
StagingAngle == {AngleOrder[k] : k \in 1..NumStagingAngles}

INITIAL_VIEWPOINTS == <<"WIDE", "TOP_DOWN", "SIDE_PERSPECTIVE", "CLOSEUP">>

MAX_RETRIES == 3
INITIAL_RETRY_DELAY == 2000

Range(s) == {s[k] : k \in 1..Len(s)}
Map(s, F(_)) == [k \in 1..Len(s) |-> F(s[k])]

----------------------------------------------------------------------------
(* src/types.ts: the work items *)

\* handleAddImages: a new ProductImage (isSelected is absent, which reads as false)
NewProductImage(k) ==
  [ id           |-> k,
    originalUrl  |-> BlobUrl(k),
    renderedUrl  |-> NoUrl,
    inputStatus  |-> "Imported",
    renderStatus |-> "pending",
    isSelected   |-> FALSE ]

\* a scene created already processing
NewStagedSceneProcessing(id, productIds, angle) ==
  [ id         |-> id,
    productIds |-> productIds,
    angle      |-> angle,
    renderedUrl |-> NoUrl,
    status     |-> "processing" ]

\* handleRender: a new StagedScene
NewStagedScene(id, productIds, angle) ==
  [ id         |-> id,
    productIds |-> productIds,
    angle      |-> angle,
    renderedUrl |-> NoUrl,
    status     |-> "pending" ]

\* handleCreateCollection
NewCollection ==
  [ mode           |-> "Individual",
    viewpoints     |-> SelectSeq(INITIAL_VIEWPOINTS, LAMBDA a : a \in CameraAngle),
    images         |-> <<>>,
    stagedScenes   |-> <<>>,
    referenceImage |-> NoUrl,
    isConfirmed    |-> FALSE ]

----------------------------------------------------------------------------
(* Array.prototype.sort with the comparator of handleRender.  The arrays   *)
(* are shorter than 32, for which the engine's sort is a binary insertion  *)
(* sort: each element in turn is the pivot, placed into the sorted prefix  *)
(* by bisection on comparefn(pivot, element).                              *)

\* the comparator of handleRender, with a bug a mutant of it would have
compareAnglesReversed(a, b) ==
  IF a = "WIDE" THEN 1
  ELSE IF b = "WIDE" THEN -1
  ELSE 0

compareAngles(a, b) ==
  IF a = "WIDE" THEN -1
  ELSE IF b = "WIDE" THEN 1
  ELSE 0

RECURSIVE Bisect(_, _, _, _)
Bisect(sorted, pivot, left, right) ==
  IF left < right
  THEN LET mid == left + ((right - left) \div 2)
       IN IF compareAngles(pivot, sorted[mid + 1]) < 0
          THEN Bisect(sorted, pivot, left, mid)
          ELSE Bisect(sorted, pivot, mid + 1, right)
  ELSE left

InsertAt(s, pos, x) == SubSeq(s, 1, pos) \o <<x>> \o SubSeq(s, pos + 1, Len(s))

RECURSIVE SortFrom(_, _)
SortFrom(sorted, rest) ==
  IF rest = <<>> THEN sorted
  ELSE SortFrom(InsertAt(sorted, Bisect(sorted, Head(rest), 0, Len(sorted)), Head(rest)),
                Tail(rest))

sortedAngles(viewpoints) == SortFrom(<<>>, viewpoints)

----------------------------------------------------------------------------
(* The setCollection updaters *)

\* the updater that sets the status and drops the url
updateImageStatusOnly(c, id, status, url) ==
  [c EXCEPT !.images = Map(c.images, LAMBDA i :
      IF i.id = id THEN [i EXCEPT !.renderStatus = status] ELSE i)]

\* the updater that writes the status only together with a url
updateImageStatusWhenUrl(c, id, status, url) ==
  [c EXCEPT !.images = Map(c.images, LAMBDA i :
      IF i.id = id /\ url # NoUrl
      THEN [i EXCEPT !.renderStatus = status, !.renderedUrl = url]
      ELSE i)]

updateImageStatus(c, id, status, url) ==
  [c EXCEPT !.images = Map(c.images, LAMBDA i :
      IF i.id = id
      THEN [i EXCEPT !.renderStatus = status,
                     !.renderedUrl = IF url # NoUrl THEN url ELSE @]
      ELSE i)]

\* the updater that finds the scenes to write by the angle of the scene named
updateSceneStatusByAngle(c, id, status, url) ==
  LET named == CHOOSE s \in Range(c.stagedScenes) : s.id = id
  IN [c EXCEPT !.stagedScenes = Map(c.stagedScenes, LAMBDA s :
        IF s.angle = named.angle
        THEN [s EXCEPT !.status = status,
                       !.renderedUrl = IF url # NoUrl THEN url ELSE @]
        ELSE s)]

\* the updater that rebuilds the scene's product list from the current selection
updateSceneStatusRelinking(c, id, status, url) ==
  [c EXCEPT !.stagedScenes = Map(c.stagedScenes, LAMBDA s :
      IF s.id = id
      THEN [s EXCEPT !.status = status,
                     !.renderedUrl = IF url # NoUrl THEN url ELSE @,
                     !.productIds = Map(SelectSeq(c.images, LAMBDA img : img.isSelected),
                                        LAMBDA img : img.id)]
      ELSE s)]

updateSceneStatus(c, id, status, url) ==
  [c EXCEPT !.stagedScenes = Map(c.stagedScenes, LAMBDA s :
      IF s.id = id
      THEN [s EXCEPT !.status = status,
                     !.renderedUrl = IF url # NoUrl THEN url ELSE @]
      ELSE s)]

----------------------------------------------------------------------------
(* src/services/geminiService.ts: what a service call reads and builds *)

\* processImage: the size-bounded JPEG encoding of the image behind a URL
processImage(url, maxWidth) == <<"jpeg", maxWidth, url>>

Includes(message, marker) == marker \in Range(message)

\* getApiKey
ApiKeyMissingError ==
  [isError |-> TRUE, status |-> 0, message |-> <<"API_KEY_MISSING", "no API_KEY">>]

\* processImage rejects with a plain string, not an Error
ImageLoadFailure ==
  [isError |-> FALSE, status |-> 0, message |-> <<"cannot load image">>]

\* the failure the SDK raises for an HTTP status
RemoteError(status, text) ==
  [isError |-> TRUE, status |-> status, message |-> <<"remote failure", text>>]

ApiKeyInvalidError ==
  [isError |-> TRUE, status |-> 0, message |-> <<"API_KEY_INVALID", "invalid API key">>]

\* no exception
NoError == [isError |-> FALSE, status |-> 0, message |-> <<>>]

\* callWithRetry: the test that sends a failed attempt i to the backoff,
\* with the off-by-one that allows one attempt more
retriesInclusive(i, error) == error.status = 429 /\ i <= MAX_RETRIES

\* callWithRetry that gives up at the first failure
retriesNever(i, error) == FALSE

\* callWithRetry that also retries an unauthorized call
retriesUnauthorized(i, error) == error.status \in {429, 401} /\ i < MAX_RETRIES

retries(i, error) == error.status = 429 /\ i < MAX_RETRIES

\* a backoff that grows by a factor of 3
retryDelayTripling(i) == INITIAL_RETRY_DELAY * (3 ^ i)

\* callWithRetry: const delay = INITIAL_RETRY_DELAY * Math.pow(2, i)
retryDelay(i) == INITIAL_RETRY_DELAY * (2 ^ i)

\* every failure reported as an invalid key
thrownAlwaysInvalidKey(error) == ApiKeyInvalidError

\* callWithRetry: what it throws for a failure it does not retry
thrown(error) == IF error.status = 401 THEN ApiKeyInvalidError ELSE error

angleDescription(angle) ==
  CASE angle = "WIDE"             -> "Panoramic wide shot."
    [] angle = "MEDIUM"           -> "Medium range shot."
    [] angle = "CLOSEUP"          -> "Macro-style detail shot."
    [] angle = "TOP_DOWN"         -> "BIRD'S EYE VIEW."
    [] angle = "SIDE_PERSPECTIVE" -> "Diagonal 45-degree view."
    [] angle = "DETAIL_MACRO"     -> "Extreme close-up."
    [] OTHER                      -> angle

\* renderProduct whose prompt changes once the service has produced an image
renderProductRequestStateful(product, referenceImage) ==
  [ parts |-> <<processImage(product.originalUrl, 1024)>>
              \o (IF referenceImage # NoUrl
                  THEN <<processImage(referenceImage, 1024)>> ELSE <<>>),
    text  |-> [ task  |-> IF images_out = 0 THEN "PRODUCT_RENDER" ELSE "PRODUCT_RENDER_NEXT",
                angle |-> "",
                emulateMoodBoard |-> referenceImage # NoUrl ] ]

\* renderProduct: parts and prompt
renderProductRequest(product, referenceImage) ==
  [ parts |-> <<processImage(product.originalUrl, 1024)>>
              \o (IF referenceImage # NoUrl
                  THEN <<processImage(referenceImage, 1024)>> ELSE <<>>),
    text  |-> [ task  |-> "PRODUCT_RENDER",
                angle |-> "",
                emulateMoodBoard |-> referenceImage # NoUrl ] ]

isSubShot(masterShotUrl) == masterShotUrl # NoUrl

\* stageRoom that keeps the mood board next to the master image
stageRoomRequestWithMood(products, angle, referenceImage, masterShotUrl) ==
  [ parts |-> (IF isSubShot(masterShotUrl)
               THEN <<processImage(masterShotUrl, 1024)>> ELSE <<>>)
              \o (IF referenceImage # NoUrl
                  THEN <<processImage(referenceImage, 1024)>> ELSE <<>>)
              \o Map(products, LAMBDA p : processImage(p.originalUrl, 800)),
    text  |-> [ task  |-> IF isSubShot(masterShotUrl)
                          THEN "SPATIAL CHANGE: MOVE CAMERA"
                          ELSE "ESTABLISH MASTER SHOT",
                angle |-> angleDescription(angle),
                emulateMoodBoard |-> FALSE ] ]

\* stageRoom: parts and prompt
stageRoomRequest(products, angle, referenceImage, masterShotUrl) ==
  [ parts |-> (IF isSubShot(masterShotUrl) /\ masterShotUrl # NoUrl
               THEN <<processImage(masterShotUrl, 1024)>>
               ELSE IF referenceImage # NoUrl
                    THEN <<processImage(referenceImage, 1024)>>
                    ELSE <<>>)
              \o Map(products, LAMBDA p : processImage(p.originalUrl, 800)),
    text  |-> [ task  |-> IF isSubShot(masterShotUrl)
                          THEN "SPATIAL CHANGE: MOVE CAMERA"
                          ELSE "ESTABLISH MASTER SHOT",
                angle |-> angleDescription(angle),
                emulateMoodBoard |-> FALSE ] ]

----------------------------------------------------------------------------
(* The activation frame of handleRender *)

IdleRun ==
  [ pc             |-> "idle",
    collection     |-> Null,    \* the collection the closure captured
    imagesToRender |-> <<>>,
    selected       |-> <<>>,
    scenes         |-> <<>>,
    i              |-> 0,
    masterShotUrl  |-> NoUrl,
    attempt        |-> 0,       \* the i of callWithRetry
    waited         |-> 0,       \* milliseconds of backoff taken in callWithRetry
    invocations    |-> 0,       \* invocations of fn() made by callWithRetry
    rateLimited    |-> 0,       \* how many of them failed with status 429
    raised         |-> NoError, \* the failure fn() raised last in callWithRetry
    err            |-> NoError, \* the exception on its way to the catch block
    events         |-> 0 ]      \* interface events handled while this run is suspended

\* the user-facing messages of handleRender
MsgSelectProduct == <<"select at least one product">>
MsgApiKeyMissing == <<"API_KEY missing">>
MsgApiKeyInvalid == <<"API key invalid">>
MsgSystemError(message) == <<"system error">> \o message

\* a catch block that reports a missing key as any other failure
catchMessageGeneric(err, current) ==
  IF ~err.isError THEN current
  ELSE IF Includes(err.message, "API_KEY_INVALID") THEN MsgApiKeyInvalid
  ELSE MsgSystemError(err.message)

\* the catch block of handleRender: the message it leaves in errorMessage.
\* A thrown string has no message: err.message.includes raises a TypeError
\* inside the catch block and no message is set.
catchMessage(err, current) ==
  IF ~err.isError THEN current
  ELSE IF Includes(err.message, "API_KEY_MISSING") THEN MsgApiKeyMissing
  ELSE IF Includes(err.message, "API_KEY_INVALID") THEN MsgApiKeyInvalid
  ELSE MsgSystemError(err.message)

----------------------------------------------------------------------------
(* The edit dialog and the activation frame of handleApplyEdit *)

\* the instructions typed into the dialog: none, or some text
Prompts == {"", "brighter"}

\* editingState === null
NoEdit ==
  [ type |-> "none", id |-> 0, imageUrl |-> NoUrl, prompt |-> "", isProcessing |-> FALSE ]

\* the state the edit buttons set
NewEditingState(type, id, imageUrl) ==
  [ type |-> type, id |-> id, imageUrl |-> imageUrl, prompt |-> "", isProcessing |-> FALSE ]

IdleEdit ==
  [ pc          |-> "idle",
    target      |-> NoEdit,   \* the editingState the closure captured
    requests    |-> <<>>,     \* the requests editImage has built
    attempt     |-> 0,        \* the i of callWithRetry
    invocations |-> 0,        \* invocations of fn() made by callWithRetry
    raised      |-> NoError ] \* the failure fn() raised last in callWithRetry

\* alert(`Lỗi chỉnh sửa: ${err.message}`): a thrown string has no message
MsgEditError(err) ==
  <<"edit error">> \o (IF err.isError THEN err.message ELSE <<"undefined">>)

----------------------------------------------------------------------------
(* Init: App mounted, no collection yet *)

Init ==
  /\ apiKey \in BOOLEAN
  /\ collection = Null
  /\ isRendering = FALSE
  /\ renderStatus = NoText
  /\ errorMessage = NoText
  /\ run = IdleRun
  /\ net = {}
  /\ reqLog = <<>>
  /\ images_out = 0
  /\ scheduled = 0
  /\ editingState = NoEdit
  /\ edit = IdleEdit
  /\ alerted = NoText
  /\ editCount = 0

\* An event handler runs only while no other code is running: the run is
\* idle or suspended at an await.  The model takes at most MaxEventsPerRun
\* events while one run is suspended, and none once the unit budget is spent.
AtSuspension ==
  \/ run.pc = "idle" /\ scheduled < MaxUnits
  \/ run.pc \in {"acquire", "call", "backoff"} /\ run.events < MaxEventsPerRun

RunUnchanged ==
  /\ run' = IF run.pc = "idle" THEN run ELSE [run EXCEPT !.events = @ + 1]
  /\ UNCHANGED <<apiKey, isRendering, renderStatus, errorMessage,
                 net, reqLog, images_out, scheduled>>
  /\ UNCHANGED editVars

----------------------------------------------------------------------------
(* The handlers of the interface *)

handleCreateCollection ==
  /\ AtSuspension
  /\ collection = Null
  /\ collection' = NewCollection
  /\ RunUnchanged

\* adding images without clearing the confirmed flag
handleAddImagesKeepingFlag ==
  /\ AtSuspension
  /\ collection # Null
  /\ \E n \in 1..(MaxImages - Len(collection.images)) :
       LET first == Len(collection.images)
           newImages == [k \in 1..n |-> NewProductImage(first + k)]
       IN collection' = [collection EXCEPT !.images = @ \o newImages]
  /\ RunUnchanged

handleAddImages ==
  /\ AtSuspension
  /\ collection # Null
  /\ \E n \in 1..(MaxImages - Len(collection.images)) :
       LET first == Len(collection.images)
           newImages == [k \in 1..n |-> NewProductImage(first + k)]
       IN collection' = [collection EXCEPT !.images = @ \o newImages,
                                           !.isConfirmed = FALSE]
  /\ RunUnchanged

handleMoodBoardUpload ==
  /\ AtSuspension
  /\ collection # Null
  /\ collection.referenceImage = NoUrl
  /\ collection' = [collection EXCEPT !.referenceImage = BlobUrl(0)]
  /\ RunUnchanged

handleRemoveMoodBoard ==
  /\ AtSuspension
  /\ collection # Null
  /\ collection.referenceImage # NoUrl
  /\ collection' = [collection EXCEPT !.referenceImage = NoUrl]
  /\ RunUnchanged

\* the buttons SINGLE PROD and ROOM STAGING
setMode ==
  /\ AtSuspension
  /\ collection # Null
  /\ \E m \in {"Individual", "Staging"} :
       /\ m # collection.mode
       /\ collection' = [collection EXCEPT !.mode = m]
  /\ RunUnchanged

\* the button Confirm Data
confirmData ==
  /\ AtSuspension
  /\ collection # Null
  /\ Len(collection.images) # 0
  /\ collection' = [collection EXCEPT
        !.isConfirmed = TRUE,
        !.images = Map(@, LAMBDA i : [i EXCEPT !.inputStatus = "Confirmed"])]
  /\ RunUnchanged

\* the angle buttons are drawn in Staging mode only, where handleUpdateParams
\* writes to stagingParameters
toggleViewpoint ==
  /\ AtSuspension
  /\ collection # Null
  /\ collection.mode = "Staging"
  /\ \E angle \in CameraAngle :
       LET current == collection.viewpoints
           next == IF angle \in Range(current)
                   THEN SelectSeq(current, LAMBDA v : v # angle)
                   ELSE Append(current, angle)
       IN collection' = [collection EXCEPT !.viewpoints = next]
  /\ RunUnchanged

toggleImageSelection ==
  /\ AtSuspension
  /\ collection # Null
  /\ \E k \in 1..Len(collection.images) :
       collection' = [collection EXCEPT !.images = Map(@, LAMBDA img :
          IF img.id = collection.images[k].id
          THEN [img EXCEPT !.isSelected = ~img.isSelected] ELSE img)]
  /\ RunUnchanged

----------------------------------------------------------------------------
(* handleRender *)

\* The button that triggers handleRender: disabled={!isConfirmed || no images}
RenderButtonDisabled ==
  ~collection.isConfirmed \/ Len(collection.images) = 0

\* a Button that takes clicks while it is loading
RenderButtonNeverLoading == FALSE

\* Button with isLoading={isRendering} takes no click while it is loading
RenderButtonLoading == isRendering

\* the filter that takes the items no run has touched yet
imagesToRenderPendingOnly(c) ==
  SelectSeq(c.images, LAMBDA img :
    img.inputStatus = "Confirmed" /\ img.renderStatus = "pending")

\* the filter without the test on renderStatus
imagesToRenderAll(c) ==
  SelectSeq(c.images, LAMBDA img : img.inputStatus = "Confirmed")

\* the filter that returns the matches last to first
imagesToRenderReversed(c) ==
  LET kept == SelectSeq(c.images, LAMBDA img :
                img.inputStatus = "Confirmed" /\ img.renderStatus # "completed")
  IN [k \in 1..Len(kept) |-> kept[Len(kept) + 1 - k]]

imagesToRender(c) ==
  SelectSeq(c.images, LAMBDA img :
    img.inputStatus = "Confirmed" /\ img.renderStatus # "completed")

\* the filter without the test on isSelected
selectedImagesAll(c) ==
  SelectSeq(c.images, LAMBDA img : img.inputStatus = "Confirmed")

selectedImages(c) ==
  SelectSeq(c.images, LAMBDA img :
    img.isSelected /\ img.inputStatus = "Confirmed")

\* scenes created in the configured order, without the sort
newScenesUnsorted(c) ==
  LET angles == c.viewpoints
      productIds == Map(selectedImages(c), LAMBDA p : p.id)
      first == Len(c.stagedScenes)
  IN [k \in 1..Len(angles) |-> NewStagedScene(first + k, productIds, angles[k])]

\* scenes for the configured angles, or one WIDE scene when there is none
newScenesDefaultWide(c) ==
  LET angles == IF c.viewpoints = <<>> THEN <<"WIDE">> ELSE sortedAngles(c.viewpoints)
      productIds == Map(selectedImages(c), LAMBDA p : p.id)
      first == Len(c.stagedScenes)
  IN [k \in 1..Len(angles) |-> NewStagedScene(first + k, productIds, angles[k])]

\* the scene ids are random strings: fresh ones
newScenes(c) ==
  LET angles == sortedAngles(c.viewpoints)
      productIds == Map(selectedImages(c), LAMBDA p : p.id)
      first == Len(c.stagedScenes)
  IN [k \in 1..Len(angles) |-> NewStagedScene(first + k, productIds, angles[k])]

\* the number of work units a run started now would schedule
unitsOfRun(c) ==
  IF c.mode = "Individual" THEN Len(imagesToRender(c))
  ELSE IF Len(selectedImages(c)) = 0 THEN 0
  ELSE Len(c.viewpoints)

\* finally { setIsRendering(false); setRenderStatus(null) }: the activation ends
Finally ==
  /\ isRendering' = FALSE
  /\ renderStatus' = NoText
  /\ run' = IdleRun
  /\ reqLog' = <<>>

\* catch (err) { ... } finally { ... }
CatchAndFinally(err) ==
  /\ errorMessage' = catchMessage(err, errorMessage)
  /\ Finally

\* the locals of callWithRetry are gone once the loop body has its result
noCall(r) ==
  [r EXCEPT !.attempt = 0, !.waited = 0, !.invocations = 0,
            !.rateLimited = 0, !.raised = NoError]

\* an exception swallowed inside the loop body: the loop goes on
ThrowAndGoOn(r, err) ==
  /\ run' = [r EXCEPT !.pc = "loop", !.i = @ + 1]
  /\ UNCHANGED <<isRendering, renderStatus, errorMessage, reqLog>>

\* an exception that escapes the activation: neither catch nor finally runs
ThrowAndHang(r, err) ==
  /\ run' = [r EXCEPT !.pc = "hung", !.err = err]
  /\ UNCHANGED <<isRendering, renderStatus, errorMessage, reqLog>>

\* an exception leaves the try block of handleRender
Throw(r, err) ==
  /\ run' = [r EXCEPT !.pc = "catch", !.err = err]
  /\ UNCHANGED <<isRendering, renderStatus, errorMessage, reqLog>>

\* The click, up to the head of the loop.  A click is handled only while no
\* other code is running; handleRender itself does not test isRendering.
handleRender ==
  /\ run.pc \notin {"loop", "catch"}
  /\ collection # Null
  /\ ~RenderButtonDisabled
  /\ ~RenderButtonLoading
  /\ collection.isConfirmed
  /\ scheduled + unitsOfRun(collection) <= MaxUnits
  /\ scheduled' = scheduled + unitsOfRun(collection)
  /\ IF collection.mode = "Individual"
     THEN /\ isRendering' = TRUE
          /\ errorMessage' = NoText
          /\ run' = [IdleRun EXCEPT !.pc = "loop",
                                    !.collection = collection,
                                    !.imagesToRender = imagesToRender(collection)]
          /\ UNCHANGED <<collection, renderStatus, reqLog>>
     ELSE IF Len(selectedImages(collection)) = 0
     THEN /\ errorMessage' = MsgSelectProduct
          /\ Finally
          /\ UNCHANGED collection
     ELSE LET scenes == newScenes(collection)
          IN /\ isRendering' = TRUE
             /\ errorMessage' = NoText
             /\ collection' = [collection EXCEPT !.stagedScenes = @ \o scenes]
             /\ run' = [IdleRun EXCEPT !.pc = "loop",
                                       !.collection = collection,
                                       !.selected = selectedImages(collection),
                                       !.scenes = scenes]
             /\ UNCHANGED <<renderStatus, reqLog>>
  /\ UNCHANGED <<apiKey, net, images_out>>
  /\ UNCHANGED editVars

\* The head of a for loop: the next iteration up to its first await, or the end
loopHead ==
  /\ run.pc = "loop"
  /\ IF run.collection.mode = "Individual"
     THEN IF run.i < Len(run.imagesToRender)
          THEN LET img == run.imagesToRender[run.i + 1]
               IN /\ collection' = updateImageStatus(collection, img.id, "processing", NoUrl)
                  /\ IF apiKey
                     THEN /\ renderStatus' = <<"Rendering Product", run.i + 1, Len(run.imagesToRender)>>
                          /\ run' = [noCall(run) EXCEPT !.pc = "acquire"]
                          /\ UNCHANGED <<isRendering, errorMessage, reqLog>>
                     ELSE Throw(noCall(run), ApiKeyMissingError)
          ELSE /\ Finally
               /\ UNCHANGED <<collection, errorMessage>>
     ELSE IF run.i < Len(run.scenes)
          THEN LET scene == run.scenes[run.i + 1]
               IN /\ collection' = updateSceneStatus(collection, scene.id, "processing", NoUrl)
                  /\ IF apiKey
                     THEN /\ renderStatus' = IF run.i = 0
                                             THEN <<"Establishing Master Environment">>
                                             ELSE <<"Relocating Camera to", scene.angle>>
                          /\ run' = [noCall(run) EXCEPT !.pc = "acquire"]
                          /\ UNCHANGED <<isRendering, errorMessage, reqLog>>
                     ELSE Throw(noCall(run), ApiKeyMissingError)
          ELSE /\ Finally
               /\ UNCHANGED <<collection, errorMessage>>
  /\ UNCHANGED <<apiKey, net, images_out, scheduled>>
  /\ UNCHANGED editVars

\* the request built from the store as it is when the iteration starts
currentRequestLive(r) ==
  IF r.collection.mode = "Individual"
  THEN renderProductRequest(r.imagesToRender[r.i + 1], collection.referenceImage)
  ELSE stageRoomRequest(selectedImages(collection), r.scenes[r.i + 1].angle,
                        collection.referenceImage, r.masterShotUrl)

\* The request of the current iteration, built from what the closure captured
currentRequest(r) ==
  IF r.collection.mode = "Individual"
  THEN renderProductRequest(r.imagesToRender[r.i + 1], r.collection.referenceImage)
  ELSE stageRoomRequest(r.selected, r.scenes[r.i + 1].angle,
                        r.collection.referenceImage, r.masterShotUrl)

currentUnit(r) ==
  IF r.collection.mode = "Individual"
  THEN r.imagesToRender[r.i + 1].id
  ELSE r.scenes[r.i + 1].id

\* a loop that does not await the service call
noAwaitCall(r) == [r EXCEPT !.pc = "loop", !.i = @ + 1]

\* const url = await geminiRef.current.renderProduct / stageRoom (...)
awaitCall(r) ==
  [r EXCEPT !.pc = "call", !.attempt = 0, !.waited = 0,
            !.invocations = 1, !.rateLimited = 0, !.raised = NoError]

\* processImage settles for every image of the call: the parts are built and
\* callWithRetry makes its first invocation, or the rejection reaches the catch
acquireDone ==
  /\ run.pc = "acquire"
  /\ \E loaded \in BOOLEAN :
       IF loaded
       THEN /\ reqLog' = Append(reqLog,
                 [ unit          |-> currentUnit(run),
                   i             |-> run.i,
                   masterShotUrl |-> run.masterShotUrl,
                   request       |-> currentRequest(run),
                   result        |-> "pending",
                   url           |-> NoUrl ])
            /\ net' = net \cup {[request |-> Len(reqLog) + 1, attempt |-> 0]}
            /\ run' = awaitCall(run)
            /\ UNCHANGED <<isRendering, renderStatus, errorMessage>>
       ELSE /\ Throw(run, ImageLoadFailure)
            /\ UNCHANGED net
  /\ UNCHANGED <<apiKey, collection, images_out, scheduled>>
  /\ UNCHANGED editVars

\* what one invocation of generateContent can answer
RemoteOutcomes == {"image", "empty", "429", "401", "404"}

StatusOf(outcome) ==
  CASE outcome = "429" -> 429
    [] outcome = "401" -> 401
    [] OTHER -> 404

\* masterShotUrl taken from whichever scene returned an image
retainAnyShot(r, url) == url

\* if (isMaster) masterShotUrl = url
retainMasterShot(r, url) == IF r.i = 0 THEN url ELSE r.masterShotUrl

\* a call marks its item completed whether it returned an image or not
storeResultAlways(c, r, url) ==
  IF r.collection.mode = "Individual"
  THEN updateImageStatus(c, currentUnit(r), "completed", url)
  ELSE updateSceneStatus(c, currentUnit(r), "completed", url)

\* a call without an image marks its item as failed
storeResultOrError(c, r, url) ==
  IF r.collection.mode = "Individual"
  THEN updateImageStatus(c, currentUnit(r), IF url # NoUrl THEN "completed" ELSE "error", url)
  ELSE updateSceneStatus(c, currentUnit(r), IF url # NoUrl THEN "completed" ELSE "error", url)

\* if (url) updateImageStatus(img.id, 'completed', url)
\* if (url) { updateSceneStatus(scene.id, 'completed', url); ... }
storeResult(c, r, url) ==
  IF url # NoUrl
  THEN IF r.collection.mode = "Individual"
       THEN updateImageStatus(c, currentUnit(r), "completed", url)
       ELSE updateSceneStatus(c, currentUnit(r), "completed", url)
  ELSE c

\* The invocation in flight settles (callWithRetry, then the loop body after
\* the await)
attemptDone ==
  /\ run.pc = "call"
  /\ \E inv \in net, outcome \in RemoteOutcomes :
       /\ net' = net \ {inv}
       /\ IF outcome = "image"
          THEN LET url == DataUrl(images_out + 1)
               IN /\ images_out' = images_out + 1
                  /\ collection' = storeResult(collection, run, url)
                  /\ run' = [run EXCEPT
                       !.pc = "loop",
                       !.i = @ + 1,
                       !.masterShotUrl = IF run.collection.mode = "Individual"
                                         THEN @ ELSE retainMasterShot(run, url)]
                  /\ reqLog' = [reqLog EXCEPT ![Len(reqLog)].result = "image",
                                              ![Len(reqLog)].url = url]
                  /\ UNCHANGED <<isRendering, renderStatus, errorMessage>>
          ELSE IF outcome = "empty"
          THEN /\ collection' = storeResult(collection, run, NoUrl)
               /\ run' = [run EXCEPT !.pc = "loop", !.i = @ + 1]
               /\ reqLog' = [reqLog EXCEPT ![Len(reqLog)].result = "empty"]
               /\ UNCHANGED <<images_out, isRendering, renderStatus, errorMessage>>
          ELSE LET error == RemoteError(StatusOf(outcome), outcome)
                   limited == IF error.status = 429 THEN 1 ELSE 0
               IN IF retries(run.attempt, error)
                  THEN /\ run' = [run EXCEPT !.pc = "backoff",
                                             !.waited = @ + retryDelay(run.attempt),
                                             !.rateLimited = @ + limited,
                                             !.raised = error]
                       /\ UNCHANGED <<collection, images_out, reqLog, isRendering,
                                      renderStatus, errorMessage>>
                  ELSE /\ Throw([run EXCEPT !.rateLimited = @ + limited,
                                              !.raised = error],
                                thrown(error))
                       /\ UNCHANGED <<collection, images_out>>
  /\ UNCHANGED <<apiKey, scheduled>>
  /\ UNCHANGED editVars

\* The backoff timer fires: callWithRetry invokes fn again
backoffDone ==
  /\ run.pc = "backoff"
  /\ run' = [run EXCEPT !.pc = "call", !.attempt = @ + 1, !.invocations = @ + 1]
  /\ net' = net \cup {[request |-> Len(reqLog), attempt |-> run.attempt + 1]}
  /\ UNCHANGED <<apiKey, collection, isRendering, renderStatus, errorMessage,
                 reqLog, images_out, scheduled>>
  /\ UNCHANGED editVars

\* The catch block of handleRender, then finally
catchBlock ==
  /\ run.pc = "catch"
  /\ CatchAndFinally(run.err)
  /\ UNCHANGED <<apiKey, collection, net, images_out, scheduled>>
  /\ UNCHANGED editVars

----------------------------------------------------------------------------

Next ==
  \/ handleCreateCollection
  \/ handleAddImages
  \/ handleMoodBoardUpload
  \/ handleRemoveMoodBoard
  \/ setMode
  \/ confirmData
  \/ toggleViewpoint
  \/ toggleImageSelection
  \/ handleRender
  \/ loopHead
  \/ acquireDone
  \/ attemptDone
  \/ backoffDone
  \/ catchBlock

Spec == Init /\ [][Next]_vars

----------------------------------------------------------------------------
(* Staging runs over every angle list.  The initial states are the stores  *)
(* the interface reaches before the button Generate Collection is clicked: *)
(* a collection in Staging mode with confirmed images, any selection, any  *)
(* angle list without duplicates (toggleViewpoint never adds an angle      *)
(* twice), with or without a mood board.                                   *)

DupFreeLists(S) ==
  {s \in UNION {[1..n -> S] : n \in 0..Cardinality(S)} :
     \A j, k \in 1..Len(s) : j # k => s[j] # s[k]}

InitStaging ==
  /\ apiKey \in BOOLEAN
  /\ \E n \in 1..MaxImages, sel \in SUBSET (1..MaxImages),
        viewpoints \in DupFreeLists(StagingAngle), mood \in {NoUrl, BlobUrl(0)} :
       collection = [NewCollection EXCEPT
          !.mode = "Staging",
          !.isConfirmed = TRUE,
          !.viewpoints = viewpoints,
          !.referenceImage = mood,
          !.images = [k \in 1..n |->
             [NewProductImage(k) EXCEPT !.inputStatus = "Confirmed",
                                        !.isSelected = k \in sel]]]
  /\ isRendering = FALSE
  /\ renderStatus = NoText
  /\ errorMessage = NoText
  /\ run = IdleRun
  /\ net = {}
  /\ reqLog = <<>>
  /\ images_out = 0
  /\ scheduled = 0
  /\ editingState = NoEdit
  /\ edit = IdleEdit
  /\ alerted = NoText
  /\ editCount = 0

NextStaging ==
  \/ handleRender
  \/ loopHead
  \/ acquireDone
  \/ attemptDone
  \/ backoffDone
  \/ catchBlock
  \/ toggleImageSelection
  \/ handleRemoveMoodBoard

SpecStaging == InitStaging /\ [][NextStaging]_vars

----------------------------------------------------------------------------
(* The edit dialog and handleApplyEdit.  The model follows one activation  *)
(* of handleApplyEdit at a time.  edit.pc names the point where it is      *)
(* suspended: "idle", "acquire" (processImage inside editImage), "call"    *)
(* (fn() inside callWithRetry) or "backoff".                               *)

\* a handler or a continuation runs only while no other code is running
EditStep == run.pc \notin {"loop", "catch"}

\* the edit buttons drawn: one per product with a rendered image and, in
\* Staging mode, one per scene with a rendered image
EditTargets(c) ==
  {NewEditingState("product", img.id, img.renderedUrl) :
     img \in {x \in Range(c.images) : x.renderedUrl # NoUrl}}
  \cup
  {NewEditingState("scene", sc.id, sc.renderedUrl) :
     sc \in {x \in Range(c.stagedScenes) : c.mode = "Staging" /\ x.renderedUrl # NoUrl}}

\* an edit button
openEdit ==
  /\ EditStep
  /\ collection # Null
  /\ editingState = NoEdit
  /\ \E target \in EditTargets(collection) : editingState' = target
  /\ UNCHANGED <<apiKey, collection, isRendering, renderStatus, errorMessage,
                 run, net, reqLog, images_out, scheduled, edit, alerted, editCount>>

\* the textarea of the dialog, disabled while the edit is processing
changePrompt ==
  /\ EditStep
  /\ editingState # NoEdit
  /\ ~editingState.isProcessing
  /\ \E prompt \in Prompts :
       /\ prompt # editingState.prompt
       /\ editingState' = [editingState EXCEPT !.prompt = prompt]
  /\ UNCHANGED <<apiKey, collection, isRendering, renderStatus, errorMessage,
                 run, net, reqLog, images_out, scheduled, edit, alerted, editCount>>

\* the close button of the dialog, enabled also while the edit is processing
closeEdit ==
  /\ EditStep
  /\ editingState # NoEdit
  /\ editingState' = NoEdit
  /\ UNCHANGED <<apiKey, collection, isRendering, renderStatus, errorMessage,
                 run, net, reqLog, images_out, scheduled, edit, alerted, editCount>>

\* Button with isLoading={editingState.isProcessing} takes no click while loading
ApplyButtonLoading == editingState.isProcessing

\* editImage: parts and prompt
editImageRequest(imageUrl, prompt) ==
  [ parts |-> <<processImage(imageUrl, 1024)>>,
    text  |-> [ task |-> "Refine this image", prompt |-> prompt ] ]

\* finally { setEditingState(prev => prev ? {...prev, isProcessing: false} : null) }
EditFinally(current) ==
  /\ editingState' = IF current # NoEdit
                     THEN [current EXCEPT !.isProcessing = FALSE] ELSE NoEdit
  /\ edit' = IdleEdit

\* catch (err) { alert(...) } finally { ... }
EditCatchAndFinally(err, current) ==
  /\ alerted' = MsgEditError(err)
  /\ EditFinally(current)

\* The click on Apply Refinement, up to the first await
handleApplyEdit ==
  /\ EditStep
  /\ edit.pc = "idle"
  /\ editCount < MaxEdits
  /\ editingState # NoEdit
  /\ editingState.prompt # ""
  /\ ~ApplyButtonLoading
  /\ editCount' = editCount + 1
  /\ IF apiKey
     THEN /\ editingState' = [editingState EXCEPT !.isProcessing = TRUE]
          /\ edit' = [IdleEdit EXCEPT !.pc = "acquire", !.target = editingState]
          /\ alerted' = NoText
     ELSE EditCatchAndFinally(ApiKeyMissingError,
                              [editingState EXCEPT !.isProcessing = TRUE])
  /\ UNCHANGED <<apiKey, collection, isRendering, renderStatus, errorMessage,
                 run, net, reqLog, images_out, scheduled>>

\* processImage settles: callWithRetry makes its first invocation, or the
\* rejection reaches the catch block
editAcquireDone ==
  /\ EditStep
  /\ edit.pc = "acquire"
  /\ \E loaded \in BOOLEAN :
       IF loaded
       THEN /\ edit' = [edit EXCEPT
                 !.pc = "call", !.attempt = 0, !.invocations = 1,
                 !.requests = Append(@, editImageRequest(edit.target.imageUrl,
                                                         edit.target.prompt))]
            /\ UNCHANGED <<editingState, alerted>>
       ELSE EditCatchAndFinally(ImageLoadFailure, editingState)
  /\ UNCHANGED <<apiKey, collection, isRendering, renderStatus, errorMessage,
                 run, net, reqLog, images_out, scheduled, editCount>>

\* the edit that marks the item and keeps its old image
applyEditKeepUrl(c, target, newUrl) ==
  IF target.type = "product"
  THEN updateImageStatus(c, target.id, "completed", NoUrl)
  ELSE updateSceneStatus(c, target.id, "completed", NoUrl)

\* the edit that writes to the item the dialog shows when the request resolves
applyEditToOpenDialog(c, target, newUrl) ==
  IF editingState.type = "product"
  THEN updateImageStatus(c, editingState.id, "completed", newUrl)
  ELSE updateSceneStatus(c, editingState.id, "completed", newUrl)

\* if (newUrl) { updateImageStatus / updateSceneStatus (id, 'completed', newUrl) }
applyEdit(c, target, newUrl) ==
  IF target.type = "product"
  THEN updateImageStatus(c, target.id, "completed", newUrl)
  ELSE updateSceneStatus(c, target.id, "completed", newUrl)

\* The invocation in flight settles (callWithRetry, then the body of
\* handleApplyEdit after the await)
editAttemptDone ==
  /\ EditStep
  /\ edit.pc = "call"
  /\ \E outcome \in RemoteOutcomes :
       IF outcome = "image"
       THEN LET newUrl == DataUrl(images_out + 1)
            IN /\ images_out' = images_out + 1
               /\ collection' = applyEdit(collection, edit.target, newUrl)
               /\ editingState' = NoEdit
               /\ edit' = IdleEdit
               /\ UNCHANGED alerted
       ELSE IF outcome = "empty"
       THEN /\ EditFinally(editingState)
            /\ UNCHANGED <<collection, images_out, alerted>>
       ELSE LET error == RemoteError(StatusOf(outcome), outcome)
            IN IF retries(edit.attempt, error)
               THEN /\ edit' = [edit EXCEPT !.pc = "backoff", !.raised = error]
                    /\ UNCHANGED <<collection, images_out, editingState, alerted>>
               ELSE /\ EditCatchAndFinally(thrown(error), editingState)
                    /\ UNCHANGED <<collection, images_out>>
  /\ UNCHANGED <<apiKey, isRendering, renderStatus, errorMessage,
                 run, net, reqLog, scheduled, editCount>>

\* The backoff timer fires: callWithRetry invokes fn again
editBackoffDone ==
  /\ EditStep
  /\ edit.pc = "backoff"
  /\ edit' = [edit EXCEPT !.pc = "call", !.attempt = @ + 1, !.invocations = @ + 1]
  /\ UNCHANGED <<apiKey, collection, isRendering, renderStatus, errorMessage,
                 run, net, reqLog, images_out, scheduled,
                 editingState, alerted, editCount>>

\* Runs and edits over a confirmed collection in either mode: the initial
\* states are stores the interface reaches before the first run
InitEdit ==
  /\ apiKey \in BOOLEAN
  /\ \E n \in 1..MaxImages, sel \in SUBSET (1..MaxImages),
        mode \in {"Individual", "Staging"},
        viewpoints \in DupFreeLists(CameraAngle) :
       collection = [NewCollection EXCEPT
          !.mode = mode,
          !.isConfirmed = TRUE,
          !.viewpoints = viewpoints,
          !.images = [k \in 1..n |->
             [NewProductImage(k) EXCEPT !.inputStatus = "Confirmed",
                                        !.isSelected = k \in sel]]]
  /\ isRendering = FALSE
  /\ renderStatus = NoText
  /\ errorMessage = NoText
  /\ run = IdleRun
  /\ net = {}
  /\ reqLog = <<>>
  /\ images_out = 0
  /\ scheduled = 0
  /\ editingState = NoEdit
  /\ edit = IdleEdit
  /\ alerted = NoText
  /\ editCount = 0

NextEdit ==
  \/ handleRender
  \/ loopHead
  \/ acquireDone
  \/ attemptDone
  \/ backoffDone
  \/ catchBlock
  \/ openEdit
  \/ changePrompt
  \/ closeEdit
  \/ handleApplyEdit
  \/ editAcquireDone
  \/ editAttemptDone
  \/ editBackoffDone

SpecEdit == InitEdit /\ [][NextEdit]_vars

----------------------------------------------------------------------------
(* Vocabulary of the properties *)

StagingRun == run.pc # "idle" /\ run.collection.mode = "Staging"
IndividualRun == run.pc # "idle" /\ run.collection.mode = "Individual"

\* the run has left its loop normally and is about to reach finally
RunCompleting ==
  /\ run.pc = "loop"
  /\ run.i = IF run.collection.mode = "Individual"
             THEN Len(run.imagesToRender) ELSE Len(run.scenes)

AnglesOf(scenes) == [k \in 1..Len(scenes) |-> scenes[k].angle]
Without(s, x) == SelectSeq(s, LAMBDA y : y # x)

\* the store's item with an id (ids are unique)
ImageOf(c, id) == CHOOSE img \in Range(c.images) : img.id = id
SceneOf(c, id) == CHOOSE sc \in Range(c.stagedScenes) : sc.id = id

\* a reference image that is the output of an earlier render
IsRenderOutput(part) == part[3] # NoUrl /\ part[3][1] = "data"

----------------------------------------------------------------------------
(* C1: in a staging run the request of every dependent scene (index > 0)   *)
(* carries the master scene's output image as its first reference image,   *)
(* and the request of the master scene carries no master-shot reference;   *)
(* for every outcome of the master call, an empty response included.       *)
(* The code violates it: when the master call returns no image the         *)
(* dependent requests are built without any master image.                  *)
C1_DependentsCarryMasterOutput ==
  StagingRun =>
    \A k \in 1..Len(reqLog) :
      IF reqLog[k].i = 0
      THEN /\ reqLog[k].masterShotUrl = NoUrl
           /\ \A j \in 1..Len(reqLog[k].request.parts) :
                ~IsRenderOutput(reqLog[k].request.parts[j])
      ELSE /\ reqLog[1].url # NoUrl
           /\ reqLog[k].request.parts[1] = processImage(reqLog[1].url, 1024)

----------------------------------------------------------------------------
(* C2: for every angle list without duplicates the staging order that      *)
(* handleRender computes is a permutation of the list with WIDE first when *)
(* present and all other angles in their configured relative order (the    *)
(* configured order itself when WIDE is absent); its first angle is the    *)
(* master: the first request of the run is for it and establishes the      *)
(* master shot.                                                            *)
C2_WideFirstStableOrder ==
  StagingRun =>
    LET requested == run.collection.viewpoints
        order == AnglesOf(run.scenes)
    IN /\ Len(order) = Len(requested)
       /\ Range(order) = Range(requested)
       /\ "WIDE" \in Range(requested) => order[1] = "WIDE"
       /\ Without(order, "WIDE") = Without(requested, "WIDE")
       /\ "WIDE" \notin Range(requested) => order = requested
       /\ Len(reqLog) >= 1 =>
            /\ reqLog[1].unit = run.scenes[1].id
            /\ reqLog[1].request.text.task = "ESTABLISH MASTER SHOT"
            /\ reqLog[1].request.text.angle = angleDescription(order[1])
       /\ \A k \in 2..Len(reqLog) : reqLog[k].unit # run.scenes[1].id

\* a run whose angle list has WIDE in the middle has made its first request
C2_Witness ==
  /\ StagingRun
  /\ run.collection.viewpoints = <<"TOP_DOWN", "WIDE", "CLOSEUP">>
  /\ AnglesOf(run.scenes) = <<"WIDE", "TOP_DOWN", "CLOSEUP">>
  /\ Len(reqLog) >= 1

----------------------------------------------------------------------------
(* C3: a staging run creates exactly one scene per requested angle, in the *)
(* sorted order, and submits the scene requests strictly in that order.    *)
(* For the angles [TOP_DOWN, WIDE, CLOSEUP] the scenes are [WIDE,          *)
(* TOP_DOWN, CLOSEUP]; when all calls return an image the three scenes end *)
(* completed and the WIDE output leads the other two requests.             *)
C3_ScenesAndRequestsInOrder ==
  StagingRun =>
    LET n == Len(run.scenes)
        stored == collection.stagedScenes
        before == Len(run.collection.stagedScenes)
    IN /\ n = Len(run.collection.viewpoints)
       /\ \A a \in Range(run.collection.viewpoints) :
            Cardinality({k \in 1..n : run.scenes[k].angle = a}) = 1
       /\ Len(stored) = before + n
       /\ \A k \in 1..n : /\ stored[before + k].id = run.scenes[k].id
                          /\ stored[before + k].angle = run.scenes[k].angle
       /\ Len(reqLog) <= n
       /\ \A k \in 1..Len(reqLog) : /\ reqLog[k].unit = run.scenes[k].id
                                    /\ reqLog[k].i = k - 1
       /\ run.collection.viewpoints = <<"TOP_DOWN", "WIDE", "CLOSEUP">> =>
            /\ AnglesOf(run.scenes) = <<"WIDE", "TOP_DOWN", "CLOSEUP">>
            /\ (RunCompleting /\ \A k \in 1..3 : reqLog[k].result = "image") =>
                 /\ \A k \in 1..3 :
                      /\ SceneOf(collection, run.scenes[k].id).status = "completed"
                      /\ SceneOf(collection, run.scenes[k].id).renderedUrl = reqLog[k].url
                 /\ \A k \in 2..3 :
                      reqLog[k].request.parts[1] = processImage(reqLog[1].url, 1024)

\* the run over [TOP_DOWN, WIDE, CLOSEUP] completes with three images
C3_Witness ==
  /\ StagingRun
  /\ RunCompleting
  /\ run.collection.viewpoints = <<"TOP_DOWN", "WIDE", "CLOSEUP">>
  /\ Len(reqLog) = 3
  /\ \A k \in 1..3 : reqLog[k].result = "image"

----------------------------------------------------------------------------
(* C4: all scene items of a staging run are appended to the store as one   *)
(* batch, each with status pending and all with the same product-id list   *)
(* (the ids of the selected confirmed images), before the first remote     *)
(* call, credential check or image acquisition of the run: at the head of  *)
(* the first iteration the whole batch is stored and pending, and a scene  *)
(* stays pending until its own iteration starts.                           *)
C4_NotStarted(k) == k - 1 > run.i \/ (k - 1 = run.i /\ run.pc = "loop")

C4_BatchInStore ==
  StagingRun =>
    LET n == Len(run.scenes)
        before == Len(run.collection.stagedScenes)
        ids == Map(SelectSeq(run.collection.images,
                     LAMBDA img : img.isSelected /\ img.inputStatus = "Confirmed"),
                   LAMBDA img : img.id)
    IN /\ Len(collection.stagedScenes) = before + n
       /\ \A k \in 1..n :
            LET stored == collection.stagedScenes[before + k]
            IN /\ stored.id = run.scenes[k].id
               /\ stored.productIds = ids
               /\ C4_NotStarted(k) => stored.status = "pending" /\ stored.renderedUrl = NoUrl
       /\ (run.pc = "loop" /\ run.i = 0) => reqLog = <<>> /\ net = {}

C4_OneBatch ==
  Len(collection'.stagedScenes) # Len(collection.stagedScenes) =>
    /\ run.pc = "idle"
    /\ run'.pc = "loop" /\ run'.i = 0
    /\ Len(collection'.stagedScenes) = Len(collection.stagedScenes) + Len(run'.scenes)
    /\ Len(run'.scenes) = Len(collection.viewpoints)

C4_ScenesPendingBeforeFirstCall == [](C4_BatchInStore) /\ [][C4_OneBatch]_vars

\* a run of three scenes at the head of its first iteration
C4_Witness ==
  /\ StagingRun
  /\ run.pc = "loop" /\ run.i = 0
  /\ Len(run.scenes) = 3
  /\ Len(run.selected) = 2

----------------------------------------------------------------------------
(* C5: within one staging run masterShotUrl is assigned at most once and   *)
(* only from the result of the index-0 scene; once set it never changes,   *)
(* every dependent request receives exactly the value the master call      *)
(* left, and no dependent's output replaces it.                            *)
C5_DependentsReceiveMaster ==
  StagingRun =>
    /\ \A k \in 2..Len(reqLog) : reqLog[k].masterShotUrl = reqLog[1].url
    /\ run.masterShotUrl # NoUrl =>
         /\ Len(reqLog) >= 1
         /\ reqLog[1].i = 0
         /\ reqLog[1].result = "image"
         /\ run.masterShotUrl = reqLog[1].url
    /\ \A k \in 2..Len(reqLog) :
         reqLog[k].url # NoUrl => run.masterShotUrl # reqLog[k].url

C5_AssignedOnce ==
  (run.pc # "idle" /\ run'.pc # "idle") =>
    /\ run.masterShotUrl # NoUrl => run'.masterShotUrl = run.masterShotUrl
    /\ run'.masterShotUrl # run.masterShotUrl =>
         run.i = 0 /\ run.pc = "call" /\ run'.masterShotUrl = reqLog'[1].url

C5_MasterRetainedOnce == [](C5_DependentsReceiveMaster) /\ [][C5_AssignedOnce]_vars

\* the master and a dependent have both returned an image
C5_Witness ==
  /\ StagingRun
  /\ Len(reqLog) = 3
  /\ reqLog[1].result = "image"
  /\ reqLog[2].result = "image"
  /\ run.masterShotUrl = reqLog[1].url

----------------------------------------------------------------------------
(* C6: within one run at most one remote generation call is in flight at   *)
(* any time, and request N+1 is neither built nor submitted before request *)
(* N has resolved; also across the backoff delays of the retry policy.     *)
C6_OneCallInFlight ==
  /\ Cardinality(net) <= 1
  /\ \A k \in 1..Len(reqLog) - 1 : reqLog[k].result # "pending"
  /\ \A inv \in net :
       /\ run.pc = "call"
       /\ inv.request = Len(reqLog)
       /\ inv.attempt = run.attempt
       /\ reqLog[Len(reqLog)].result = "pending"
  /\ run.pc \in {"idle", "loop", "acquire"} =>
       /\ net = {}
       /\ \A k \in 1..Len(reqLog) : reqLog[k].result # "pending"
  /\ run.pc = "backoff" => net = {} /\ reqLog[Len(reqLog)].result = "pending"

\* the second request of a run is in flight again after a backoff
C6_Witness ==
  /\ run.pc = "call"
  /\ Len(reqLog) = 2
  /\ run.attempt >= 1
  /\ Cardinality(net) = 1

----------------------------------------------------------------------------
(* C7: an independent-mode run processes its items in their original list  *)
(* order, and item i+1 is neither requested nor marked processing before   *)
(* the call for item i has resolved.                                       *)
C7_PositionIn(c, id) == CHOOSE k \in 1..Len(c.images) : c.images[k].id = id

C7_IndependentInListOrder ==
  IndividualRun =>
    LET work == run.imagesToRender
        started == IF run.pc = "loop" THEN run.i ELSE run.i + 1
    IN /\ \A j, k \in 1..Len(work) :
            j < k => C7_PositionIn(run.collection, work[j].id)
                       < C7_PositionIn(run.collection, work[k].id)
       /\ Len(reqLog) <= started
       /\ \A k \in 1..Len(reqLog) : reqLog[k].unit = work[k].id
       /\ \A k \in 1..Len(work) :
            k > started =>
              ImageOf(collection, work[k].id).renderStatus = work[k].renderStatus
       /\ \A k \in 1..Len(work) :
            (k <= started /\ k <= Len(work)) =>
              \A j \in 1..Len(reqLog) : j < k => reqLog[j].result # "pending"

\* the second item is in flight, the first has resolved
C7_Witness ==
  /\ IndividualRun
  /\ Len(run.imagesToRender) = 2
  /\ run.pc = "call"
  /\ run.i = 1
  /\ Len(reqLog) = 2
  /\ ImageOf(collection, run.imagesToRender[1].id).renderStatus = "completed"

----------------------------------------------------------------------------
(* C8: an independent-mode run requests exactly the product items that are *)
(* confirmed and not completed at run start (pending, processing and error *)
(* items included); completed or unconfirmed items receive no request and  *)
(* are not modified.                                                       *)
C8_Eligible(img) == img.inputStatus = "Confirmed" /\ img.renderStatus # "completed"

C8_ExactlyTheEligibleItems ==
  IndividualRun =>
    LET atStart == run.collection.images
        eligible == {img.id : img \in {x \in Range(atStart) : C8_Eligible(x)}}
        requested == {reqLog[k].unit : k \in 1..Len(reqLog)}
    IN /\ {run.imagesToRender[k].id : k \in 1..Len(run.imagesToRender)} = eligible
       /\ Len(run.imagesToRender) = Cardinality(eligible)
       /\ requested \subseteq eligible
       /\ (RunCompleting /\ Len(reqLog) = run.i) => requested = eligible
       /\ \A img \in Range(atStart) :
            img.id \notin eligible =>
              /\ ImageOf(collection, img.id).renderStatus = img.renderStatus
              /\ ImageOf(collection, img.id).renderedUrl = img.renderedUrl

\* a run that started with a completed item and an item left in processing
C8_Witness ==
  /\ IndividualRun
  /\ RunCompleting
  /\ Len(run.collection.images) = 2
  /\ run.collection.images[1].renderStatus = "completed"
  /\ run.collection.images[2].renderStatus = "processing"
  /\ Len(reqLog) = 1
  /\ reqLog[1].unit = 2

----------------------------------------------------------------------------
(* C9: in independent mode, when every remote call returns an image, every *)
(* confirmed non-completed product item ends the run completed with its    *)
(* output reference set, and the run leaves the store's scene list as it   *)
(* was (no scene items are created).                                       *)
C9_EveryCallReturnedAnImage ==
  /\ IndividualRun
  /\ RunCompleting
  /\ Len(reqLog) = Len(run.imagesToRender)
  /\ \A k \in 1..Len(reqLog) : reqLog[k].result = "image"

C9_AtCompletion ==
  /\ IndividualRun => collection.stagedScenes = run.collection.stagedScenes
  /\ C9_EveryCallReturnedAnImage =>
       \A img \in Range(run.collection.images) :
         (img.inputStatus = "Confirmed" /\ img.renderStatus # "completed") =>
           /\ ImageOf(collection, img.id).renderStatus = "completed"
           /\ ImageOf(collection, img.id).renderedUrl # NoUrl
           /\ \E k \in 1..Len(reqLog) :
                /\ reqLog[k].unit = img.id
                /\ ImageOf(collection, img.id).renderedUrl = reqLog[k].url

C9_EndOfRun ==
  (C9_EveryCallReturnedAnImage /\ run'.pc = "idle") =>
    /\ collection' = collection
    /\ isRendering' = FALSE
    /\ errorMessage' = NoText

C9_AllImagesAllCompleted == [](C9_AtCompletion) /\ [][C9_EndOfRun]_vars

\* a run over two items, both calls returned an image
C9_Witness ==
  /\ C9_EveryCallReturnedAnImage
  /\ Len(run.imagesToRender) = 2
  /\ collection.images[1].renderStatus = "completed"
  /\ collection.images[2].renderStatus = "completed"

----------------------------------------------------------------------------
(* C10: a staging run started when no product item is both selected and    *)
(* confirmed aborts at once: it sets a user-facing message, performs no    *)
(* remote call, creates no scene item, changes no item status and leaves   *)
(* the running flag cleared.                                               *)
C10_NothingSelected ==
  /\ collection # Null
  /\ collection.mode = "Staging"
  /\ \A img \in Range(collection.images) :
       ~(img.isSelected /\ img.inputStatus = "Confirmed")

C10_AbortStep ==
  (C10_NothingSelected /\ handleRender) =>
    /\ errorMessage' = MsgSelectProduct
    /\ errorMessage' # NoText
    /\ collection' = collection
    /\ net = {} /\ net' = {}
    /\ reqLog' = <<>>
    /\ images_out' = images_out
    /\ isRendering' = FALSE
    /\ renderStatus' = NoText
    /\ run'.pc = "idle"

C10_StagingWithoutSelectionAborts == [][C10_AbortStep]_vars

\* the store after such a run: the message is shown, nothing runs
C10_Witness ==
  /\ C10_NothingSelected
  /\ collection.isConfirmed
  /\ errorMessage = MsgSelectProduct
  /\ run.pc = "idle"
  /\ ~isRendering

----------------------------------------------------------------------------
(* Vocabulary of the retry properties *)

\* the call of the current iteration has returned to the loop body
CallReturned ==
  /\ run.pc = "loop"
  /\ run.i >= 1
  /\ Len(reqLog) = run.i
  /\ reqLog[run.i].result \in {"image", "empty"}

\* callWithRetry has thrown: the exception is on its way to the catch block
CallThrew == run.pc = "catch" /\ run.raised # NoError

----------------------------------------------------------------------------
----------------------------------------------------------------------------
(* C12 as claimed: when the operation fails with a failure that is not     *)
(* rate-limited, or rate-limited with the budget exhausted, callWithRetry  *)
(* makes no further attempt and delivers the very failure the operation    *)
(* raised, unchanged, for every classification, 401 included.  The code    *)
(* replaces a 401 failure by a new API_KEY_INVALID error.                  *)
C12_FailurePropagatedUnchanged ==
  CallThrew => run.err = run.raised /\ net = {}

(* C12 as amended: callWithRetry makes no further attempt, and delivers    *)
(* the failure the operation raised unchanged unless its status is 401,    *)
(* for which it delivers a new API_KEY_INVALID error instead.              *)
C12_GaveUp ==
  /\ CallThrew =>
       /\ net = {}
       /\ run.raised.status # 429 \/ run.attempt = MAX_RETRIES
       /\ run.raised.status # 401 => run.err = run.raised
       /\ run.raised.status = 401 => run.err = ApiKeyInvalidError
  /\ run.pc = "backoff" => run.raised.status = 429 /\ run.attempt < MAX_RETRIES

C12_NoFurtherAttempt ==
  /\ (run.pc = "call" /\ run'.pc = "catch") =>
       run'.invocations = run.invocations /\ net' = {}
  /\ run.pc = "catch" => run'.pc = "idle" /\ net' = {}

C12_FailurePropagatedUnless401 == [](C12_GaveUp) /\ [][C12_NoFurtherAttempt]_vars

\* a 401 failure of the first attempt has been replaced
C12_Witness ==
  /\ CallThrew
  /\ run.raised = RemoteError(401, "401")
  /\ run.err = ApiKeyInvalidError
  /\ run.invocations = 1

----------------------------------------------------------------------------
(* C13: the wait before the retry that follows failed attempt i (from 0)   *)
(* is INITIAL_RETRY_DELAY * 2^i, so a call rate-limited on its first k     *)
(* attempts has waited INITIAL_RETRY_DELAY * (2^k - 1) in total when       *)
(* attempt k+1 settles (for k = 2: the sum of the two intervals); nothing  *)
(* is waited after the final failed attempt or after a success.            *)
C13_TotalDelay ==
  /\ run.pc # "backoff" => run.waited = INITIAL_RETRY_DELAY * ((2 ^ run.attempt) - 1)
  /\ run.pc = "backoff" => run.waited = INITIAL_RETRY_DELAY * ((2 ^ (run.attempt + 1)) - 1)
  /\ (CallReturned /\ run.rateLimited = 2) =>
       run.waited = INITIAL_RETRY_DELAY * 1 + INITIAL_RETRY_DELAY * 2
  /\ (CallReturned \/ CallThrew) =>
       run.waited = INITIAL_RETRY_DELAY * ((2 ^ (run.invocations - 1)) - 1)

C13_EachDelay ==
  /\ (run.pc = "call" /\ run'.pc = "backoff") =>
       run'.waited - run.waited = INITIAL_RETRY_DELAY * (2 ^ run.attempt)
  /\ (run.pc = "call" /\ run'.pc \in {"loop", "catch"}) => run'.waited = run.waited
  /\ (run.pc = "backoff" /\ run'.pc # "backoff") =>
       run'.pc = "call" /\ run'.waited = run.waited

C13_ExponentialBackoff == [](C13_TotalDelay) /\ [][C13_EachDelay]_vars

\* a call has succeeded at its third attempt
C13_Witness ==
  /\ CallReturned
  /\ run.rateLimited = 2
  /\ run.invocations = 3
  /\ run.waited = 3 * INITIAL_RETRY_DELAY

----------------------------------------------------------------------------
(* C14: a call rate-limited on its first k attempts (k <= MAX_RETRIES)     *)
(* that succeeds at attempt k+1 is invoked exactly k+1 times and returns   *)
(* that success (one invocation when k = 0); in independent mode the item  *)
(* stays processing during the retries and ends completed.                 *)
C14_SuccessAfterRetries ==
  /\ CallReturned =>
       /\ run.invocations = run.rateLimited + 1
       /\ run.rateLimited <= MAX_RETRIES
       /\ net = {}
       /\ (IndividualRun /\ reqLog[run.i].result = "image") =>
            LET item == ImageOf(collection, reqLog[run.i].unit)
            IN /\ item.renderStatus = "completed"
               /\ item.renderedUrl = reqLog[run.i].url
               /\ item.renderedUrl # NoUrl
  /\ (IndividualRun /\ run.pc \in {"call", "backoff"}) =>
       /\ run.invocations = run.rateLimited + (IF run.pc = "call" THEN 1 ELSE 0)
       /\ ImageOf(collection, currentUnit(run)).renderStatus = "processing"

C14_RetriedWithinBudget ==
  /\ (run.pc = "call" /\ run'.rateLimited = run.rateLimited + 1
        /\ run.attempt < MAX_RETRIES) => run'.pc = "backoff"
  /\ (run.pc = "call" /\ run'.pc = "loop") =>
       /\ run'.invocations = run.invocations
       /\ run'.rateLimited = run.rateLimited

C14_ReturnsTheSuccess == [](C14_SuccessAfterRetries) /\ [][C14_RetriedWithinBudget]_vars

\* an independent-mode item completed at the third attempt of its call
C14_Witness ==
  /\ IndividualRun
  /\ CallReturned
  /\ run.rateLimited = 2
  /\ run.invocations = 3
  /\ reqLog[run.i].result = "image"
  /\ ImageOf(collection, reqLog[run.i].unit).renderStatus = "completed"

----------------------------------------------------------------------------
(* C15: when the call for a work item that is in processing fails (the     *)
(* retry policy gives up, another failure is raised, or the credential is  *)
(* missing), that work item's status becomes error: once the catch block   *)
(* of the run has handled the failure, the item is in error.  The code     *)
(* violates it: no statement of the program writes the status error, and   *)
(* the item is left in processing.                                         *)
C15_StatusOfUnit(c, r) ==
  IF r.collection.mode = "Individual"
  THEN ImageOf(c, currentUnit(r)).renderStatus
  ELSE SceneOf(c, currentUnit(r)).status

C15_FailureHandled ==
  (run.pc = "catch" /\ C15_StatusOfUnit(collection, run) = "processing") =>
    C15_StatusOfUnit(collection', run) = "error"

C15_FailedItemBecomesError == [][C15_FailureHandled]_vars

----------------------------------------------------------------------------
(* Vocabulary of the status properties *)

\* the status of the work item an edit dialog or an edit activation is about
StatusOfTarget(c, target) ==
  IF target.type = "product"
  THEN ImageOf(c, target.id).renderStatus
  ELSE SceneOf(c, target.id).status

UrlOfTarget(c, target) ==
  IF target.type = "product"
  THEN ImageOf(c, target.id).renderedUrl
  ELSE SceneOf(c, target.id).renderedUrl

\* handleApplyEdit ends in this step
EditEnds == edit'.pc = "idle" /\ (edit.pc # "idle" \/ editCount' # editCount)

----------------------------------------------------------------------------
(* C16: through any sequence of runs and edits every change of a work      *)
(* item's render status is one of pending->processing,                     *)
(* processing->completed, processing->error, completed->processing or      *)
(* error->processing, for product items and for scene items; items are     *)
(* never removed and a new scene item starts pending.                      *)
C16_Allowed ==
  { <<"pending", "processing">>, <<"processing", "completed">>,
    <<"processing", "error">>, <<"completed", "processing">>,
    <<"error", "processing">> }

C16_Step ==
  (collection # Null /\ collection' # Null) =>
    /\ Len(collection'.images) >= Len(collection.images)
    /\ Len(collection'.stagedScenes) >= Len(collection.stagedScenes)
    /\ \A k \in 1..Len(collection.images) :
         LET old == collection.images[k]
             new == collection'.images[k]
         IN /\ new.id = old.id
            /\ new.renderStatus = old.renderStatus
                 \/ <<old.renderStatus, new.renderStatus>> \in C16_Allowed
    /\ \A k \in 1..Len(collection.stagedScenes) :
         LET old == collection.stagedScenes[k]
             new == collection'.stagedScenes[k]
         IN /\ new.id = old.id
            /\ new.status = old.status \/ <<old.status, new.status>> \in C16_Allowed
    /\ \A k \in (Len(collection.images) + 1)..Len(collection'.images) :
         collection'.images[k].renderStatus = "pending"
    /\ \A k \in (Len(collection.stagedScenes) + 1)..Len(collection'.stagedScenes) :
         collection'.stagedScenes[k].status = "pending"

C16_StatusOnlyForward == [][C16_Step]_vars

\* a run is at its second product while the first, rendered and then
\* edited, is completed
C16_Witness ==
  /\ IndividualRun
  /\ run.pc = "call"
  /\ run.i = 1
  /\ editCount = 1
  /\ edit.pc = "idle"
  /\ collection.images[1].renderStatus = "completed"
  /\ collection.images[1].renderedUrl = DataUrl(2)
  /\ collection.images[2].renderStatus = "processing"

----------------------------------------------------------------------------
(* C17: an edit of a completed (or error) work item resets the item's      *)
(* status to processing while the edit request is in flight, and moves it  *)
(* back to a terminal status when the request resolves.  The code violates *)
(* it: handleApplyEdit marks the dialog as processing, never the item,     *)
(* which stays completed while the request is in flight.                   *)
C17_ProcessingWhileInFlight ==
  edit.pc # "idle" => StatusOfTarget(collection, edit.target) = "processing"

C17_TerminalWhenResolved ==
  (edit.pc # "idle" /\ edit'.pc = "idle") =>
    StatusOfTarget(collection', edit.target) \in {"completed", "error"}

C17_EditResetsToProcessing ==
  [](C17_ProcessingWhileInFlight) /\ [][C17_TerminalWhenResolved]_vars

----------------------------------------------------------------------------
(* C18: one activation of the edit sub-flow builds a single edit request   *)
(* (retried invocations resend it); when it returns an image the edited    *)
(* unit's stored output is overwritten with the new image and its status   *)
(* is completed; when it ends without an image (a failure, which is        *)
(* reported by an alert) no work item changes status or stored output.     *)
C18_SingleRequest ==
  /\ Len(edit.requests) <= 1
  /\ edit.pc \in {"call", "backoff"} =>
       /\ edit.requests =
            <<editImageRequest(edit.target.imageUrl, edit.target.prompt)>>
       /\ edit.invocations = edit.attempt + 1
       /\ edit.invocations <= MAX_RETRIES + 1
  /\ edit.pc = "backoff" => edit.raised.status = 429 /\ edit.attempt < MAX_RETRIES
  /\ edit.pc \in {"idle", "acquire"} => edit.requests = <<>>

C18_EditFailures ==
  {ApiKeyMissingError, ImageLoadFailure, ApiKeyInvalidError,
   RemoteError(404, "404"), RemoteError(429, "429")}

C18_Outcome ==
  /\ (EditEnds /\ images_out' # images_out) =>
       /\ edit.pc = "call"
       /\ images_out' = images_out + 1
       /\ UrlOfTarget(collection', edit.target) = DataUrl(images_out')
       /\ UrlOfTarget(collection', edit.target) # UrlOfTarget(collection, edit.target)
       /\ StatusOfTarget(collection', edit.target) = "completed"
       /\ \A k \in 1..Len(collection.images) :
            \/ collection'.images[k] = collection.images[k]
            \/ edit.target.type = "product" /\ collection.images[k].id = edit.target.id
       /\ \A k \in 1..Len(collection.stagedScenes) :
            \/ collection'.stagedScenes[k] = collection.stagedScenes[k]
            \/ edit.target.type = "scene" /\ collection.stagedScenes[k].id = edit.target.id
       /\ alerted' = alerted
  /\ (EditEnds /\ images_out' = images_out) =>
       /\ collection' = collection
       /\ alerted' = NoText \/ alerted' \in {MsgEditError(e) : e \in C18_EditFailures}
  /\ (EditEnds /\ edit.pc \in {"idle", "acquire"}) => alerted' # NoText
  /\ (edit.pc # "idle" /\ edit'.pc # "idle") =>
       /\ collection' = collection \/ run' # run
       /\ edit'.target = edit.target

C18_EditOverwritesOrLeaves == [](C18_SingleRequest) /\ [][C18_Outcome]_vars

\* a scene whose image an edit has replaced
C18_Witness ==
  /\ editCount = 1
  /\ edit.pc = "idle"
  /\ editingState = NoEdit
  /\ Len(collection.stagedScenes) = 1
  /\ collection.stagedScenes[1].status = "completed"
  /\ collection.stagedScenes[1].renderedUrl = DataUrl(2)

----------------------------------------------------------------------------
(* Vocabulary of the halting properties *)

\* the work units of the current run, in the order of the loop
UnitsOf(r) ==
  IF r.collection.mode = "Individual"
  THEN [k \in 1..Len(r.imagesToRender) |-> r.imagesToRender[k].id]
  ELSE [k \in 1..Len(r.scenes) |-> r.scenes[k].id]

\* the store's status and output of a unit of the current run
UnitStatus(c, r, id) ==
  IF r.collection.mode = "Individual"
  THEN ImageOf(c, id).renderStatus ELSE SceneOf(c, id).status

UnitUrl(c, r, id) ==
  IF r.collection.mode = "Individual"
  THEN ImageOf(c, id).renderedUrl ELSE SceneOf(c, id).renderedUrl

\* the status a unit of the current run had when the run reached its loop
UnitStatusAtStart(r, k) ==
  IF r.collection.mode = "Individual"
  THEN r.imagesToRender[k].renderStatus ELSE r.scenes[k].status

----------------------------------------------------------------------------
(* C19: when a request of a run fails with a condition the retry policy    *)
(* does not absorb, the run halts at the current item: a request is only   *)
(* ever issued when every earlier request of the run has returned, no      *)
(* request exists for the remaining items, which keep the status they had, *)
(* the run ends in its next step without issuing anything, and every item  *)
(* completed earlier in the run keeps its completed status and its output. *)
C19_AtFailure ==
  /\ \A k \in 1..(Len(reqLog) - 1) : reqLog[k].result \in {"image", "empty"}
  /\ CallThrew =>
       LET units == UnitsOf(run)
       IN /\ Len(reqLog) = run.i + 1
          /\ reqLog[run.i + 1].unit = units[run.i + 1]
          /\ net = {}
          /\ \A k \in (run.i + 2)..Len(units) :
               /\ \A j \in 1..Len(reqLog) : reqLog[j].unit # units[k]
               /\ UnitStatus(collection, run, units[k]) = UnitStatusAtStart(run, k)
               /\ UnitUrl(collection, run, units[k]) = NoUrl
          /\ \A k \in 1..run.i :
               reqLog[k].result = "image" =>
                 /\ UnitStatus(collection, run, units[k]) = "completed"
                 /\ UnitUrl(collection, run, units[k]) = reqLog[k].url

C19_Halt ==
  run.pc = "catch" =>
    /\ run' = IdleRun
    /\ collection' = collection
    /\ net' = {}
    /\ images_out' = images_out
    /\ isRendering' = FALSE

C19_RunHaltsKeepingProgress == [](C19_AtFailure) /\ [][C19_Halt]_vars

\* the second of three scene requests has failed after the first completed
C19_Witness ==
  /\ StagingRun
  /\ CallThrew
  /\ run.i = 1
  /\ Len(run.scenes) >= 2
  /\ reqLog[1].result = "image"
  /\ SceneOf(collection, run.scenes[1].id).status = "completed"
  /\ SceneOf(collection, run.scenes[2].id).status = "processing"

----------------------------------------------------------------------------
(* C20: when a render call of a run succeeds but carries no image, the     *)
(* item stays in processing (neither completed nor error) without an       *)
(* output, no error message is reported, and the run goes on to the next   *)
(* item.                                                                   *)
C20_EmptyLeavesProcessing ==
  run.pc # "idle" =>
    \A k \in 1..Len(reqLog) :
      reqLog[k].result = "empty" =>
        /\ UnitStatus(collection, run, reqLog[k].unit) = "processing"
        /\ UnitUrl(collection, run, reqLog[k].unit) = NoUrl
        /\ run.i >= k
        /\ run.pc # "catch" => errorMessage = NoText

C20_RunGoesOn ==
  (CallReturned /\ reqLog[run.i].result = "empty") =>
    /\ run.i < Len(UnitsOf(run)) =>
         /\ run'.pc = "acquire"
         /\ run'.i = run.i
         /\ UnitStatus(collection', run, UnitsOf(run)[run.i + 1]) = "processing"
         /\ errorMessage' = NoText
    /\ run.i = Len(UnitsOf(run)) =>
         /\ run'.pc = "idle"
         /\ errorMessage' = NoText
         /\ collection' = collection

C20_EmptyResponseIsNoError == [](C20_EmptyLeavesProcessing) /\ [][C20_RunGoesOn]_vars

\* the first item's call returned no image and the second item is in flight
C20_Witness ==
  /\ IndividualRun
  /\ run.pc = "call"
  /\ run.i = 1
  /\ Len(reqLog) = 2
  /\ reqLog[1].result = "empty"
  /\ ImageOf(collection, reqLog[1].unit).renderStatus = "processing"
  /\ errorMessage = NoText

----------------------------------------------------------------------------
(* C21: in any mode, when the credential cannot be resolved (API_KEY is    *)
(* not set) no remote generation call is attempted: a run that reaches its *)
(* first item fails before any request is built, the failure is not        *)
(* retried, and the run ends with the missing-credential message, which is *)
(* neither the invalid-credential message nor a generic one; no edit       *)
(* request is ever made.                                                   *)
C21_NoRemoteCall ==
  /\ ~apiKey =>
       /\ net = {}
       /\ reqLog = <<>>
       /\ images_out = 0
       /\ run.invocations = 0
       /\ run.waited = 0
       /\ run.pc \in {"idle", "loop", "catch"}
       /\ run.pc = "catch" => run.err = ApiKeyMissingError
       /\ edit.pc = "idle" /\ edit.invocations = 0 /\ edit.requests = <<>>
       /\ errorMessage \in {NoText, MsgSelectProduct, MsgApiKeyMissing}
  /\ run.err = ApiKeyMissingError => ~apiKey
  /\ apiKey => errorMessage # MsgApiKeyMissing

C21_Surfaced ==
  /\ (~apiKey /\ run.pc = "loop" /\ ~RunCompleting) =>
       /\ run'.pc = "catch"
       /\ run'.err = ApiKeyMissingError
       /\ run'.invocations = 0
       /\ net' = {}
  /\ (run.pc = "catch" /\ run.err = ApiKeyMissingError) =>
       /\ errorMessage' = MsgApiKeyMissing
       /\ errorMessage' # NoText
       /\ errorMessage' # MsgApiKeyInvalid
       /\ errorMessage' # MsgSelectProduct
       /\ Head(errorMessage') # Head(MsgSystemError(run.err.message))
       /\ run' = IdleRun
       /\ net' = {}
       /\ isRendering' = FALSE
  /\ (~apiKey /\ editCount' # editCount) =>
       /\ edit'.pc = "idle"
       /\ alerted' = MsgEditError(ApiKeyMissingError)
       /\ alerted' # MsgEditError(ApiKeyInvalidError)

C21_MissingCredentialFailsFast == [](C21_NoRemoteCall) /\ [][C21_Surfaced]_vars

\* a staging run has ended at its first scene with the missing-credential message
C21_Witness ==
  /\ ~apiKey
  /\ run.pc = "idle"
  /\ errorMessage = MsgApiKeyMissing
  /\ collection.mode = "Staging"
  /\ Len(collection.stagedScenes) >= 1
  /\ collection.stagedScenes[1].status = "processing"
  /\ net = {}

----------------------------------------------------------------------------
(* Vocabulary of the message properties *)

\* the message of the last branch of the catch block, around any text
IsGenericMessage(msg) == msg # NoText /\ Head(msg) = Head(MsgSystemError(<<>>))

\* the retry budget of the failed call was spent on rate-limit failures
RateLimitExhausted ==
  CallThrew /\ run.raised.status = 429 /\ run.attempt = MAX_RETRIES

----------------------------------------------------------------------------
(* C22: when a request stays rate-limited until the retry budget is        *)
(* exhausted, the run halts at the current item, items already completed   *)
(* keep their results, and the message shown is a quota/limit message: not *)
(* the message of generic remote failures, of a missing credential or of   *)
(* an invalid credential.  The code violates it: the catch block has no    *)
(* branch for the rate limit and shows the generic system-error message.   *)
C22_Halted ==
  RateLimitExhausted =>
    /\ run' = IdleRun
    /\ net' = {}
    /\ collection' = collection
    /\ errorMessage' # NoText
    /\ errorMessage' # MsgApiKeyMissing
    /\ errorMessage' # MsgApiKeyInvalid
    /\ ~IsGenericMessage(errorMessage')

C22_QuotaMessageDistinct == [][C22_Halted]_vars

----------------------------------------------------------------------------
(* C23: an unauthorized (401) failure is never retried: on whichever       *)
(* attempt it occurs, the first or one after rate-limited attempts, no     *)
(* further invocation follows and no backoff delay is taken for it, the    *)
(* invalid-credential message is shown, and the run halts at the current   *)
(* item.                                                                   *)
C23_Unauthorized == CallThrew /\ run.raised.status = 401

C23_NotRetried ==
  /\ run.pc \in {"call", "backoff"} => run.raised.status # 401
  /\ C23_Unauthorized =>
       /\ run.err = ApiKeyInvalidError
       /\ net = {}
       /\ run.invocations = run.rateLimited + 1
       /\ run.invocations = run.attempt + 1
       /\ run.waited = INITIAL_RETRY_DELAY * ((2 ^ run.rateLimited) - 1)
       /\ Len(reqLog) = run.i + 1
       /\ reqLog[Len(reqLog)].result = "pending"

C23_HaltsWithMessage ==
  /\ (run.pc = "call" /\ run'.raised.status = 401) =>
       /\ run'.pc = "catch"
       /\ run'.invocations = run.invocations
       /\ run'.waited = run.waited
       /\ run'.attempt = run.attempt
       /\ net' = {}
  /\ C23_Unauthorized =>
       /\ errorMessage' = MsgApiKeyInvalid
       /\ errorMessage' # NoText
       /\ run' = IdleRun
       /\ net' = {}
       /\ collection' = collection
       /\ images_out' = images_out
       /\ isRendering' = FALSE

C23_UnauthorizedNeverRetried == [](C23_NotRetried) /\ [][C23_HaltsWithMessage]_vars

\* a call was rate-limited twice and then unauthorized at its third attempt
C23_Witness ==
  /\ C23_Unauthorized
  /\ run.rateLimited = 2
  /\ run.invocations = 3
  /\ run.waited = 3 * INITIAL_RETRY_DELAY

----------------------------------------------------------------------------
(* C24: when a remote call fails with an "entity not found" condition      *)
(* (status 404) the run halts, the current credential selection is         *)
(* invalidated and the user is prompted to re-select a credential, an      *)
(* outcome distinct from that of a generic failure.  The code violates it: *)
(* it keeps no credential selection, and the catch block treats the        *)
(* failure as any other, leaving the generic system-error message and the  *)
(* credential as it was.                                                   *)
C24_EntityNotFound == CallThrew /\ run.raised.status = 404

C24_Handled ==
  C24_EntityNotFound =>
    /\ run' = IdleRun
    /\ net' = {}
    /\ ~apiKey'
    /\ errorMessage' # NoText
    /\ ~IsGenericMessage(errorMessage')

C24_NotFoundInvalidatesCredential == [][C24_Handled]_vars

----------------------------------------------------------------------------
(* C25: every run that halts on a failure ends with one non-empty error    *)
(* message set, which for a generic failure carries the underlying         *)
(* message; for every failure a request can raise, an image-acquisition    *)
(* failure raised as a plain string included.  The code violates it: a     *)
(* thrown string has no message property, the catch block fails on         *)
(* err.message.includes before it sets anything, and the run ends without  *)
(* a message.                                                              *)
C25_HaltStep ==
  run.pc = "catch" =>
    /\ run' = IdleRun
    /\ errorMessage' # NoText
    /\ run.err \notin {ApiKeyMissingError, ApiKeyInvalidError} =>
         errorMessage' = MsgSystemError(run.err.message)

C25_OneMessagePerHaltedRun == [][C25_HaltStep]_vars

----------------------------------------------------------------------------
(* C26: no two runs are ever active at the same time over the store: the   *)
(* running flag is set for as long as a run is active, so its button takes *)
(* no click and handleRender starts only when no run is active; an active  *)
(* run's frame is never replaced, and every status or output written while *)
(* it is active is written to the item the run is working on.              *)
C26_FlagWhileActive ==
  /\ run.pc # "idle" => isRendering
  /\ run.pc = "idle" => ~isRendering /\ net = {}

C26_NoSecondRun ==
  /\ handleRender => run.pc = "idle" /\ ~isRendering /\ net = {}
  /\ (run.pc # "idle" /\ run'.pc # "idle") =>
       /\ run'.collection = run.collection
       /\ run'.imagesToRender = run.imagesToRender
       /\ run'.scenes = run.scenes
       /\ run'.i \in {run.i, run.i + 1}
  /\ (run.pc # "idle" /\ collection' # Null) =>
       /\ \A k \in 1..Len(collection.images) :
            (collection'.images[k].renderStatus # collection.images[k].renderStatus
               \/ collection'.images[k].renderedUrl # collection.images[k].renderedUrl)
              => IndividualRun /\ collection.images[k].id = currentUnit(run)
       /\ Len(collection'.stagedScenes) = Len(collection.stagedScenes)
       /\ \A k \in 1..Len(collection.stagedScenes) :
            collection'.stagedScenes[k] # collection.stagedScenes[k]
              => StagingRun /\ collection.stagedScenes[k].id = currentUnit(run)

----------------------------------------------------------------------------
(* C27: the product-id list and the angle of a scene item are fixed when   *)
(* the scene is created: a new scene gets the ids of the products selected *)
(* and confirmed at that moment, and no later step (a status update of a   *)
(* run, an edit, a selection toggle, added images, a later run) changes    *)
(* the productIds, the angle or the id of an existing scene.               *)
C27_SelectedIds(c) ==
  LET chosen == SelectSeq(c.images,
                  LAMBDA img : img.isSelected /\ img.inputStatus = "Confirmed")
  IN [k \in 1..Len(chosen) |-> chosen[k].id]

C27_Step ==
  (collection # Null /\ collection' # Null) =>
    /\ Len(collection'.stagedScenes) >= Len(collection.stagedScenes)
    /\ \A k \in 1..Len(collection.stagedScenes) :
         /\ collection'.stagedScenes[k].id = collection.stagedScenes[k].id
         /\ collection'.stagedScenes[k].productIds = collection.stagedScenes[k].productIds
         /\ collection'.stagedScenes[k].angle = collection.stagedScenes[k].angle
    /\ \A k \in (Len(collection.stagedScenes) + 1)..Len(collection'.stagedScenes) :
         collection'.stagedScenes[k].productIds = C27_SelectedIds(collection)

C27_SceneProductsFixed == [][C27_Step]_vars

\* a scene completed by an earlier run keeps its product list after the
\* selection has changed and a later run has added a scene for other products
C27_Witness ==
  /\ collection # Null
  /\ Len(collection.stagedScenes) = 3
  /\ collection.stagedScenes[1].status = "completed"
  /\ collection.stagedScenes[3].status = "completed"
  /\ collection.stagedScenes[1].productIds = <<1>>
  /\ collection.stagedScenes[3].productIds = <<2>>

----------------------------------------------------------------------------
(* C28: the reference images of a scene request are, for a dependent shot  *)
(* (a master image is supplied), the master image first and then the       *)
(* images of all selected products in selection order, without the mood    *)
(* board even when one is present; for a master shot (no master image),    *)
(* the mood board first when one is present and then the product images.   *)
C28_UrlsOf(parts) == [j \in 1..Len(parts) |-> parts[j][3]]

C28_ProductUrls(c) ==
  LET chosen == SelectSeq(c.images,
                  LAMBDA img : img.isSelected /\ img.inputStatus = "Confirmed")
  IN [j \in 1..Len(chosen) |-> chosen[j].originalUrl]

C28_ReferenceList ==
  StagingRun =>
    \A k \in 1..Len(reqLog) :
      LET urls == C28_UrlsOf(reqLog[k].request.parts)
          master == reqLog[k].masterShotUrl
          mood == run.collection.referenceImage
          products == C28_ProductUrls(run.collection)
      IN /\ Len(products) >= 1
         /\ master # NoUrl =>
              /\ urls = <<master>> \o products
              /\ mood # NoUrl => \A j \in 1..Len(urls) : urls[j] # mood
         /\ (master = NoUrl /\ mood # NoUrl) => urls = <<mood>> \o products
         /\ (master = NoUrl /\ mood = NoUrl) => urls = products

\* with a mood board and two selected products, the master request and a
\* dependent request have been built
C28_Witness ==
  /\ StagingRun
  /\ run.collection.referenceImage # NoUrl
  /\ Len(run.selected) = 2
  /\ Len(reqLog) >= 2
  /\ reqLog[1].masterShotUrl = NoUrl
  /\ reqLog[2].masterShotUrl # NoUrl
  /\ Len(reqLog[1].request.parts) = 3
  /\ Len(reqLog[2].request.parts) = 3

----------------------------------------------------------------------------
(* C29: a single-product request is determined by its inputs alone: in     *)
(* whatever state it is composed, its reference images are the product     *)
(* image followed by the mood-board image when one is present, and its     *)
(* instruction text is that of the product render, asking to emulate the   *)
(* mood board exactly when one is present; so two compositions with        *)
(* identical inputs have identical text and reference order.               *)
C29_Composed(k) == reqLog[k].request

C29_DeterminedByInputs ==
  IndividualRun =>
    LET mood == run.collection.referenceImage
    IN /\ \A k \in 1..Len(reqLog) :
            LET product == ImageOf(run.collection, reqLog[k].unit)
                urls == [j \in 1..Len(C29_Composed(k).parts) |-> C29_Composed(k).parts[j][3]]
            IN /\ urls = <<product.originalUrl>>
                           \o (IF mood # NoUrl THEN <<mood>> ELSE <<>>)
               /\ C29_Composed(k).text.task = "PRODUCT_RENDER"
               /\ C29_Composed(k).text.emulateMoodBoard = (mood # NoUrl)
       /\ \A j, k \in 1..Len(reqLog) :
            /\ C29_Composed(j).text = C29_Composed(k).text
            /\ Len(C29_Composed(j).parts) = Len(C29_Composed(k).parts)
            /\ \A p \in 2..Len(C29_Composed(j).parts) :
                 C29_Composed(j).parts[p] = C29_Composed(k).parts[p]

\* two products of one run composed with a mood board, the second after the
\* first call has produced an image
C29_Witness ==
  /\ IndividualRun
  /\ run.collection.referenceImage # NoUrl
  /\ Len(reqLog) = 2
  /\ reqLog[1].result = "image"
  /\ Len(reqLog[2].request.parts) = 2
  /\ images_out >= 1

----------------------------------------------------------------------------
(* C30: no work item is ever removed from the store: through runs, edits   *)
(* and interface actions the product list and the scene list only grow and *)
(* keep their items in place; the scene list grows only when a staging run *)
(* that passes its precondition starts, by exactly one scene per requested *)
(* angle; and a run leaves the scenes of earlier runs as they are (only an *)
(* edit of such a scene changes it).                                       *)
C30_EditOf(scene) ==
  /\ edit.pc = "call"
  /\ edit.target.type = "scene"
  /\ edit.target.id = scene.id
  /\ images_out' = images_out + 1

C30_Step ==
  collection # Null =>
    LET old == collection.stagedScenes
        new == collection'.stagedScenes
    IN /\ collection' # Null
       /\ Len(collection'.images) >= Len(collection.images)
       /\ \A k \in 1..Len(collection.images) :
            collection'.images[k].id = collection.images[k].id
       /\ Len(new) >= Len(old)
       /\ \A k \in 1..Len(old) : new[k].id = old[k].id
       /\ Len(new) # Len(old) =>
            /\ run.pc = "idle" /\ run'.pc = "loop"
            /\ collection.mode = "Staging"
            /\ Len(new) = Len(old) + Len(collection.viewpoints)
            /\ \A a \in Range(collection.viewpoints) :
                 Cardinality({k \in (Len(old) + 1)..Len(new) : new[k].angle = a}) = 1
            /\ \A k \in 1..Len(old) : new[k] = old[k]
       /\ (run.pc = "idle" /\ run'.pc = "loop" /\ collection.mode = "Staging") =>
            /\ Len(new) = Len(old) + Len(collection.viewpoints)
            /\ Len(run'.scenes) = Len(collection.viewpoints)
       /\ run.pc # "idle" =>
            \A k \in 1..Len(run.collection.stagedScenes) :
              new[k] # old[k] => C30_EditOf(old[k])

C30_StoreOnlyGrows == [][C30_Step]_vars

\* a second staging run is at work next to the completed scenes of the first
C30_Witness ==
  /\ StagingRun
  /\ run.pc = "call"
  /\ Len(run.collection.stagedScenes) = 2
  /\ Len(collection.stagedScenes) = 3
  /\ collection.stagedScenes[1].status = "completed"
  /\ collection.stagedScenes[2].status = "completed"
  /\ collection.stagedScenes[3].status = "processing"
  /\ collection.stagedScenes[3].angle = collection.stagedScenes[1].angle

----------------------------------------------------------------------------
(* Runs whose awaits all settle: every remote call answers, every image    *)
(* acquisition resolves or rejects, every backoff timer fires, and the     *)
(* continuation of a settled await is run.  The initial states are those   *)
(* of InitEdit; the selection may be toggled while a run is suspended.     *)

NextLive ==
  \/ handleRender
  \/ loopHead
  \/ acquireDone
  \/ attemptDone
  \/ backoffDone
  \/ catchBlock
  \/ toggleImageSelection

Settling ==
  /\ WF_vars(loopHead)
  /\ WF_vars(acquireDone)
  /\ WF_vars(attemptDone)
  /\ WF_vars(backoffDone)
  /\ WF_vars(catchBlock)

SpecLive == InitEdit /\ [][NextLive]_vars /\ Settling

----------------------------------------------------------------------------
(* C31: provided every remote call and every image acquisition eventually  *)
(* resolves, every run eventually terminates; and whenever a run ends, by  *)
(* completing, by halting on a failure or by aborting on the staging       *)
(* precondition, the running flag is false and the progress text is        *)
(* cleared.                                                                *)
C31_ClearedWhenIdle ==
  run.pc = "idle" => ~isRendering /\ renderStatus = NoText /\ net = {}

C31_RunEnds ==
  (run'.pc = "idle" /\ (run.pc # "idle" \/ scheduled' # scheduled \/ errorMessage' # errorMessage)) =>
    /\ isRendering' = FALSE
    /\ renderStatus' = NoText
    /\ net' = {}

C31_EveryRunTerminates ==
  /\ [](C31_ClearedWhenIdle)
  /\ [][C31_RunEnds]_vars
  /\ (run.pc # "idle") ~> (run.pc = "idle")

\* a later run has halted on a call that stayed rate-limited, and has ended
C31_Witness ==
  /\ run.pc = "idle"
  /\ scheduled >= 2
  /\ errorMessage = MsgSystemError(RemoteError(429, "429").message)
  /\ ~isRendering
  /\ renderStatus = NoText

----------------------------------------------------------------------------
(* C32: in every reachable state every product item and every scene item   *)
(* has an output reference exactly when its render status is completed: a  *)
(* pending or processing item carries no output; and no step of a run      *)
(* moves a completed item back to processing or takes its output away.     *)
C32_OutputIffCompleted ==
  collection # Null =>
    /\ \A img \in Range(collection.images) :
         /\ (img.renderedUrl # NoUrl) <=> (img.renderStatus = "completed")
         /\ img.renderStatus \in {"pending", "processing"} => img.renderedUrl = NoUrl
    /\ \A sc \in Range(collection.stagedScenes) :
         /\ (sc.renderedUrl # NoUrl) <=> (sc.status = "completed")
         /\ sc.status \in {"pending", "processing"} => sc.renderedUrl = NoUrl

C32_CompletedStays ==
  (collection # Null /\ collection' # Null /\ run' # run) =>
    /\ \A k \in 1..Len(collection.images) :
         collection.images[k].renderStatus = "completed" =>
           /\ collection'.images[k].renderStatus = "completed"
           /\ collection'.images[k].renderedUrl # NoUrl
    /\ \A k \in 1..Len(collection.stagedScenes) :
         collection.stagedScenes[k].status = "completed" =>
           /\ collection'.stagedScenes[k].status = "completed"
           /\ collection'.stagedScenes[k].renderedUrl # NoUrl

C32_OutputExactlyWhenCompleted ==
  [](C32_OutputIffCompleted) /\ [][C32_CompletedStays]_vars

\* a later independent run is at the item an earlier run left in processing,
\* next to the item that run completed
C32_Witness ==
  /\ IndividualRun
  /\ run.pc = "call"
  /\ Len(run.imagesToRender) = 1
  /\ run.imagesToRender[1].id = 2
  /\ collection.images[1].renderStatus = "completed"
  /\ collection.images[1].renderedUrl # NoUrl
  /\ collection.images[2].renderStatus = "processing"
  /\ collection.images[2].renderedUrl = NoUrl

----------------------------------------------------------------------------
(* C33: in every reachable state, if the collection is marked confirmed    *)
(* then every product image has input status Confirmed: confirming marks   *)
(* all images confirmed, adding images clears the flag, and handleRender   *)
(* triggered on a collection that is not confirmed starts no run and       *)
(* issues no remote call (a run captured a confirmed collection, and every *)
(* item it requests is confirmed).                                         *)
C33_AllConfirmed(c) ==
  \A img \in Range(c.images) : img.inputStatus = "Confirmed"

C33_ConfirmedMeansAll ==
  /\ (collection # Null /\ collection.isConfirmed) => C33_AllConfirmed(collection)
  /\ (collection = Null \/ ~collection.isConfirmed) => ~ENABLED handleRender
  /\ run.pc # "idle" =>
       /\ run.collection.isConfirmed
       /\ C33_AllConfirmed(run.collection)
       /\ \A k \in 1..Len(run.imagesToRender) :
            run.imagesToRender[k].inputStatus = "Confirmed"
       /\ \A k \in 1..Len(run.selected) : run.selected[k].inputStatus = "Confirmed"

C33_FlagSteps ==
  (collection # Null /\ collection' # Null) =>
    /\ (~collection.isConfirmed /\ collection'.isConfirmed) =>
         /\ C33_AllConfirmed(collection')
         /\ Len(collection'.images) = Len(collection.images)
    /\ Len(collection'.images) > Len(collection.images) =>
         /\ ~collection'.isConfirmed
         /\ \A k \in (Len(collection.images) + 1)..Len(collection'.images) :
              collection'.images[k].inputStatus = "Imported"
    /\ (~collection.isConfirmed /\ run.pc = "idle") =>
         /\ run'.pc = "idle"
         /\ net' = {}
         /\ reqLog' = reqLog

----------------------------------------------------------------------------
(* C34: re-running independent mode after success does nothing: a run      *)
(* started when every confirmed item is completed issues no remote call    *)
(* and changes no item; while an item that an earlier run left in          *)
(* processing (it halted there, or the response carried no image) is       *)
(* requested again by the next independent run.                            *)
C34_AllDoneAtStart ==
  /\ IndividualRun
  /\ \A img \in Range(run.collection.images) :
       img.inputStatus = "Confirmed" => img.renderStatus = "completed"

C34_LeftInProcessing(img) ==
  img.inputStatus = "Confirmed" /\ img.renderStatus = "processing"

C34_Rerun ==
  /\ C34_AllDoneAtStart =>
       /\ run.imagesToRender = <<>>
       /\ run.pc = "loop"
       /\ reqLog = <<>>
       /\ net = {}
       /\ run.invocations = 0
       /\ collection = run.collection
  /\ IndividualRun =>
       \A img \in Range(run.collection.images) :
         C34_LeftInProcessing(img) =>
           /\ \E k \in 1..Len(run.imagesToRender) : run.imagesToRender[k].id = img.id
           /\ RunCompleting => \E k \in 1..Len(reqLog) : reqLog[k].unit = img.id

C34_RerunEnds ==
  C34_AllDoneAtStart =>
    /\ run'.pc = "idle"
    /\ collection' = collection
    /\ images_out' = images_out
    /\ net' = {}
    /\ errorMessage' = NoText

C34_RerunIdempotent == [](C34_Rerun) /\ [][C34_RerunEnds]_vars

\* a second run over two items that the first run completed
C34_Witness ==
  /\ C34_AllDoneAtStart
  /\ Len(run.collection.images) = 2
  /\ images_out = 2
  /\ collection.images[1].renderedUrl = DataUrl(1)
  /\ collection.images[2].renderedUrl = DataUrl(2)

----------------------------------------------------------------------------
(* C35: all requests of one run use the inputs captured when the run       *)
(* started: the items the run processes, and the product set, the angles   *)
(* and the mood board of each of its requests, are those of the store at   *)
(* the start of the run, whatever selection toggles, angle changes, added  *)
(* images or mood-board changes happen while the run is in flight.         *)
C35_Eligible(c) ==
  SelectSeq(c.images, LAMBDA img :
    img.inputStatus = "Confirmed" /\ img.renderStatus # "completed")

C35_Urls(parts) == [j \in 1..Len(parts) |-> parts[j][3]]

C35_CapturedInputs ==
  run.pc # "idle" =>
    LET start == run.collection
        mood == start.referenceImage
    IN IF start.mode = "Individual"
       THEN /\ Len(run.imagesToRender) = Len(C35_Eligible(start))
            /\ \A k \in 1..Len(run.imagesToRender) :
                 run.imagesToRender[k].id = C35_Eligible(start)[k].id
            /\ \A k \in 1..Len(reqLog) :
                 /\ reqLog[k].unit = C35_Eligible(start)[k].id
                 /\ C35_Urls(reqLog[k].request.parts) =
                      <<C35_Eligible(start)[k].originalUrl>>
                        \o (IF mood # NoUrl THEN <<mood>> ELSE <<>>)
                 /\ reqLog[k].request.text.emulateMoodBoard = (mood # NoUrl)
       ELSE /\ Len(run.scenes) = Len(start.viewpoints)
            /\ {run.scenes[k].angle : k \in 1..Len(run.scenes)} = Range(start.viewpoints)
            /\ \A k \in 1..Len(reqLog) :
                 LET urls == C35_Urls(reqLog[k].request.parts)
                     lead == IF reqLog[k].masterShotUrl # NoUrl
                             THEN <<reqLog[k].masterShotUrl>>
                             ELSE IF mood # NoUrl THEN <<mood>> ELSE <<>>
                 IN /\ urls = lead \o C28_ProductUrls(start)
                    /\ reqLog[k].request.text.angle = angleDescription(run.scenes[k].angle)

C35_Captured ==
  /\ (run.pc = "idle" /\ run'.pc # "idle") => run'.collection = collection
  /\ (run.pc # "idle" /\ run'.pc # "idle") =>
       /\ run'.collection = run.collection
       /\ run'.imagesToRender = run.imagesToRender
       /\ run'.selected = run.selected
       /\ run'.scenes = run.scenes
       /\ \A k \in 1..Len(reqLog) : reqLog'[k].request = reqLog[k].request

C35_RunUsesCapturedInputs == [](C35_CapturedInputs) /\ [][C35_Captured]_vars

\* a run that started with a mood board is about to build its second
\* request after the mood board was removed
C35_Witness ==
  /\ IndividualRun
  /\ run.pc = "acquire"
  /\ run.i = 1
  /\ run.collection.referenceImage # NoUrl
  /\ collection.referenceImage = NoUrl

----------------------------------------------------------------------------
(* C36: a staging run started with at least one selected confirmed product *)
(* and an empty angle list creates no scene item, issues no remote call,   *)
(* reports no error message and ends with the running flag cleared.        *)
C36_NoAngles ==
  /\ collection # Null
  /\ collection.mode = "Staging"
  /\ collection.viewpoints = <<>>
  /\ \E img \in Range(collection.images) :
       img.isSelected /\ img.inputStatus = "Confirmed"

C36_EmptyRun == StagingRun /\ run.collection.viewpoints = <<>>

C36_NothingToDo ==
  C36_EmptyRun =>
    /\ run.pc = "loop"
    /\ run.scenes = <<>>
    /\ Len(run.selected) >= 1
    /\ collection = run.collection
    /\ errorMessage = NoText
    /\ net = {}
    /\ reqLog = <<>>

C36_Steps ==
  /\ (C36_NoAngles /\ handleRender) =>
       /\ run'.pc = "loop"
       /\ collection' = collection
       /\ errorMessage' = NoText
       /\ net' = {}
       /\ images_out' = images_out
  /\ C36_EmptyRun =>
       /\ run' = IdleRun
       /\ collection' = collection
       /\ isRendering' = FALSE
       /\ renderStatus' = NoText
       /\ errorMessage' = NoText
       /\ net' = {}
       /\ images_out' = images_out

C36_EmptyAngleListDoesNothing == [](C36_NothingToDo) /\ [][C36_Steps]_vars

\* such a run, with two selected products, before it ends
C36_Witness ==
  /\ C36_EmptyRun
  /\ Len(run.selected) = 2
  /\ isRendering
  /\ collection.stagedScenes = <<>>

----------------------------------------------------------------------------
(* C37: the image an edit request returns is written to the work item the  *)
(* edit was started on and to no other item, whatever else happens while   *)
(* the request is in flight: a pipeline run that updates other items, the  *)
(* dialog being closed, or the dialog being opened again on another item.  *)
(* The item is the one the dialog showed at the click on Apply; it stays   *)
(* in the store and stays the edit's item until the request resolves; and  *)
(* the step that stores the returned image changes exactly that item.      *)
C37_Names(target, type, item) ==
  target.type = type /\ target.id = item.id

\* the item the edit in flight was started on is in the store
C37_TargetPresent ==
  edit.pc # "idle" =>
    /\ collection # Null
    /\ \/ \E k \in 1..Len(collection.images) :
            C37_Names(edit.target, "product", collection.images[k])
       \/ \E k \in 1..Len(collection.stagedScenes) :
            C37_Names(edit.target, "scene", collection.stagedScenes[k])

\* the edit in flight resolves with an image
C37_Resolves ==
  /\ edit.pc = "call"
  /\ edit'.pc = "idle"
  /\ images_out' = images_out + 1

C37_Step ==
  /\ (edit.pc = "idle" /\ edit'.pc # "idle") =>
       /\ edit'.target.type = editingState.type
       /\ edit'.target.id = editingState.id
  /\ (edit.pc # "idle" /\ edit'.pc # "idle") => edit'.target = edit.target
  /\ C37_Resolves =>
       /\ Len(collection'.images) = Len(collection.images)
       /\ Len(collection'.stagedScenes) = Len(collection.stagedScenes)
       /\ \A k \in 1..Len(collection.images) :
            IF C37_Names(edit.target, "product", collection.images[k])
            THEN collection'.images[k] =
                   [collection.images[k] EXCEPT !.renderStatus = "completed",
                                                !.renderedUrl = DataUrl(images_out')]
            ELSE collection'.images[k] = collection.images[k]
       /\ \A k \in 1..Len(collection.stagedScenes) :
            IF C37_Names(edit.target, "scene", collection.stagedScenes[k])
            THEN collection'.stagedScenes[k] =
                   [collection.stagedScenes[k] EXCEPT !.status = "completed",
                                                      !.renderedUrl = DataUrl(images_out')]
            ELSE collection'.stagedScenes[k] = collection.stagedScenes[k]
       /\ Cardinality({k \in 1..Len(collection.images) :
                         collection'.images[k] # collection.images[k]})
          + Cardinality({k \in 1..Len(collection.stagedScenes) :
                           collection'.stagedScenes[k] # collection.stagedScenes[k]}) = 1

C37_EditWritesItsOwnItem == [](C37_TargetPresent) /\ [][C37_Step]_vars

\* an edit request is in flight for one scene while the dialog is open again
\* on another scene and a staging run has a request in flight for a third
C37_Witness ==
  /\ edit.pc = "call"
  /\ edit.target.type = "scene"
  /\ editingState # NoEdit
  /\ editingState.type = "scene"
  /\ editingState.id # edit.target.id
  /\ StagingRun
  /\ run.pc = "call"
  /\ run.scenes[run.i + 1].id \notin {edit.target.id, editingState.id}

====
